---- MODULE Spec2Model ----
(***************************************************************************)
(* ModelMeter (vcentea/ChatGPT_Counters): the background service worker    *)
(* that owns the stored record map ("modelData") and the stored plan, the  *)
(* content script's expiry sweep and banner check, and the popup / panel   *)
(* operations that send it messages.                                       *)
(*                                                                         *)
(* Time is counted in whole hours since an epoch (Date.now() in the code   *)
(* is in milliseconds); the local time zone is taken to have no daylight   *)
(* saving, and a year to have 365 days.  JavaScript's undefined and null   *)
(* are the two negative numbers Undef and Null, so that "truthy" and       *)
(* typeof x === 'number' are comparisons.  A model name is the sequence of *)
(* its characters, so that toLowerCase() and includes() are computed.      *)
(***************************************************************************)
EXTENDS Integers, Sequences, FiniteSets, TLC

\* ------------------------------------------------------------------ bounds

\* The clock reads StartTime when the extension is installed and advances
\* MaxTicks times.
StartTime == 100
MaxTicks == 2
MaxTime == StartTime + MaxTicks
\* Events of one run: messages the pages and the popup send, installations
\* and stops of the service worker.
MaxMsgs == 2
\* Events of one run with a page that stays open.
MaxLiveMsgs == 3
\* Background message handlers in flight (between two awaits) at one time.
MaxHandlers == 2
\* Expiry sweeps in flight at one time.
MaxSweeps == 2
\* The largest count a manual override states.
MaxCount == 2

\* ------------------------------------------------------- JavaScript values

Undef == -2000000
Null == -1000000

\* if (x) for a number, null or undefined
Truthy(x) == x \notin {0, Null, Undef}
\* typeof x === 'number'
IsNumber(x) == x \notin {Null, Undef}
\* a || b
OrElse(a, b) == IF Truthy(a) THEN a ELSE b

\* ------------------------------------------------------------- model names

\* toLowerCase on one character
LowerChar(c) ==
  CASE c = "A" -> "a"
    [] c = "B" -> "b"
    [] c = "C" -> "c"
    [] c = "D" -> "d"
    [] c = "E" -> "e"
    [] c = "F" -> "f"
    [] c = "G" -> "g"
    [] c = "H" -> "h"
    [] c = "I" -> "i"
    [] c = "J" -> "j"
    [] c = "K" -> "k"
    [] c = "L" -> "l"
    [] c = "M" -> "m"
    [] c = "N" -> "n"
    [] c = "O" -> "o"
    [] c = "P" -> "p"
    [] c = "Q" -> "q"
    [] c = "R" -> "r"
    [] c = "S" -> "s"
    [] c = "T" -> "t"
    [] c = "U" -> "u"
    [] c = "V" -> "v"
    [] c = "W" -> "w"
    [] c = "X" -> "x"
    [] c = "Y" -> "y"
    [] c = "Z" -> "z"
    [] OTHER -> c

\* String.prototype.toLowerCase
toLowerCase(s) == [i \in 1..Len(s) |-> LowerChar(s[i])]

\* String.prototype.includes
includes(s, sub) ==
  \E str \in {s}, searchString \in {sub} :
    \E i \in 0..(Len(str) - Len(searchString)) :
      SubSeq(str, i + 1, i + Len(searchString)) = searchString

N_gpt4 == <<"g","p","t","-","4">>
N_gpt4o == <<"g","p","t","-","4","o">>
N_gpt4omini == <<"g","p","t","-","4","o","-","m","i","n","i">>
N_gpt35turbo == <<"g","p","t","-","3",".","5","-","t","u","r","b","o">>
N_o3 == <<"o","3">>
N_o3mini == <<"o","3","-","m","i","n","i">>
N_o4mini == <<"o","4","-","m","i","n","i">>
N_o4minihigh == <<"o","4","-","m","i","n","i","-","h","i","g","h">>
N_o4 == <<"o","4">>
N_g4 == <<"g","4">>
N_g4t == <<"g","4","t">>
N_g35t == <<"g","3","5","t">>
N_deepresearchlite == <<"d","e","e","p","-","r","e","s","e","a","r","c","h","-","l","i","t","e">>
N_deepresearch == <<"d","e","e","p","-","r","e","s","e","a","r","c","h">>
N_dalle3 == <<"d","a","l","l","-","e","-","3">>

\* The model names the pages of a run show and the banners name.
Models == {N_gpt4o, N_gpt4omini, N_o4mini}

\* Model names a page can show that getModelLimits has no entry for, by name
\* or by partial match.
UnknownModels == {N_o3, N_dalle3}

\* Model names as pages may show them, among them one in capitals.
N_GPT4o == <<"G","P","T","-","4","o">>

MatcherModels == {N_GPT4o, N_gpt4o, N_gpt4omini, N_dalle3}

Plans == {"FREE", "PLUS"}

\* ------------------------------------------------------------ limit tables

Lim(limit, amount, unit) ==
  [limit |-> limit, periodAmount |-> amount, periodUnit |-> unit]

\* "no limit object": null
NoLimit == Lim(Undef, Undef, "null")
HasLimit(l) == l.periodUnit # "null"

Infinity == 1000000

\* getModelLimits of timestamp_utils.js, in declared order; the entries
\* without a period have no periodAmount.
getModelLimits(currentPlan) ==
  LET isPlus == currentPlan = "PLUS" IN
  << <<N_gpt4,       Lim(IF isPlus THEN 100 ELSE 40, 1, "day")>>,
     <<N_gpt4o,      Lim(IF isPlus THEN 100 ELSE 25, 3, "hour")>>,
     <<N_gpt35turbo, Lim(0, Undef, "unlimited")>>,
     <<N_o4mini,     Lim(0, Undef, "unlimited")>>,
     <<N_o4,         Lim(IF isPlus THEN 100 ELSE 25, 3, "hour")>>,
     <<N_g4,         Lim(IF isPlus THEN 100 ELSE 40, 1, "day")>>,
     <<N_g4t,        Lim(IF isPlus THEN 100 ELSE 40, 1, "day")>>,
     <<N_g35t,       Lim(0, Undef, "unlimited")>> >>

\* The table the content script's expiry sweep hard-codes.
sweepModelLimits(currentPlan) ==
  IF currentPlan = "FREE" THEN
    << <<N_gpt4o,            Lim(15, 3, "hour")>>,
       <<N_gpt4omini,        Lim(Infinity, 0, "unlimited")>>,
       <<N_o3mini,           Lim(0, 0, "none")>>,
       <<N_o4mini,           Lim(20, 5, "hour")>>,
       <<N_o4minihigh,       Lim(0, 0, "none")>>,
       <<N_deepresearchlite, Lim(5, 1, "month")>>,
       <<N_dalle3,           Lim(3, 1, "day")>> >>
  ELSE IF currentPlan = "PLUS" THEN
    << <<N_gpt4,         Lim(40, 3, "hour")>>,
       <<N_gpt4o,        Lim(80, 3, "hour")>>,
       <<N_o3,           Lim(50, 1, "week")>>,
       <<N_o3mini,       Lim(50, 1, "week")>>,
       <<N_o4mini,       Lim(150, 1, "day")>>,
       <<N_o4minihigh,   Lim(50, 1, "day")>>,
       <<N_deepresearch, Lim(10, 1, "month")>>,
       <<N_dalle3,       Lim(40, 3, "hour")>> >>
  ELSE << >>

\* modelLimits[name]
TableGet(modelLimits, name) ==
  IF \E i \in 1..Len(modelLimits) : modelLimits[i][1] = name
    THEN modelLimits[CHOOSE i \in 1..Len(modelLimits) : modelLimits[i][1] = name][2]
    ELSE NoLimit

\* Object.keys(modelLimits).find(key => lower.includes(key) || key.includes(lower))
PartialMatch(modelLowerCase, modelLimits) ==
  LET matches(i) ==
        \/ includes(modelLowerCase, toLowerCase(modelLimits[i][1]))
        \/ includes(toLowerCase(modelLimits[i][1]), modelLowerCase)
  IN IF \E i \in 1..Len(modelLimits) : matches(i)
       THEN modelLimits[CHOOSE i \in 1..Len(modelLimits) :
                          matches(i) /\ \A j \in 1..(i - 1) : ~matches(j)][2]
       ELSE NoLimit

\* A matcher that tries the partial match first.
findLimitObjectForModel_partialFirst(modelName, modelLowerCase, modelLimits) ==
  IF HasLimit(PartialMatch(modelLowerCase, modelLimits))
    THEN PartialMatch(modelLowerCase, modelLimits)
  ELSE TableGet(modelLimits, modelName)

findLimitObjectForModel(modelName, modelLowerCase, modelLimits) ==
  IF HasLimit(TableGet(modelLimits, modelName))
    THEN TableGet(modelLimits, modelName)
  ELSE IF HasLimit(TableGet(modelLimits, modelLowerCase))
    THEN TableGet(modelLimits, modelLowerCase)
  ELSE PartialMatch(modelLowerCase, modelLimits)

\* ------------------------------------------------------- period arithmetic

MonthDays == <<31, 28, 31, 30, 31, 30, 31, 31, 30, 31, 30, 31>>

RECURSIVE DaysBefore(_)
\* days of the year before month index m (0 = January)
DaysBefore(m) == IF m = 0 THEN 0 ELSE DaysBefore(m - 1) + MonthDays[m]

\* the day number on which month number mm (months since the epoch) starts
MonthStart(mm) == (mm \div 12) * 365 + DaysBefore(mm % 12)

\* Date.getMonth() and Date.getFullYear() as one month number
MonthOf(t) ==
  LET day == t \div 24
      doy == day % 365
      m == CHOOSE k \in 0..11 :
             DaysBefore(k) <= doy /\ doy < DaysBefore(k) + MonthDays[k + 1]
  IN (day \div 365) * 12 + m

\* date.setMonth(date.getMonth() + n): the day of the month and the time of
\* day are kept, and a day past the end of the target month runs over into
\* the next one.
AddMonths(t, n) ==
  LET day == t \div 24
      dom == day - MonthStart(MonthOf(t))
  IN (MonthStart(MonthOf(t) + n) + dom) * 24 + (t % 24)

\* date.setHours(date.getHours() + n)
AddHours(t, n) == t + n
\* date.setDate(date.getDate() + n)
AddDays(t, n) == t + 24 * n

calculateNextTimestampAfterPeriod(timestamp, limitObject) ==
  IF ~HasLimit(limitObject) \/ ~Truthy(timestamp) THEN Null
  ELSE CASE limitObject.periodUnit = "hour" ->
              AddHours(timestamp, limitObject.periodAmount)
         [] limitObject.periodUnit = "day" ->
              AddDays(timestamp, limitObject.periodAmount)
         [] limitObject.periodUnit = "week" ->
              AddDays(timestamp, limitObject.periodAmount * 7)
         [] limitObject.periodUnit = "month" ->
              AddMonths(timestamp, limitObject.periodAmount)
         [] OTHER -> Null

\* handleModelConfigUpdate's switch with the period added, as in
\* calculateNextTimestampAfterPeriod, where the code subtracts it.
sinceDateOf_added(untilTimestamp, limitObject) ==
  CASE limitObject.periodUnit = "hour" ->
         AddHours(untilTimestamp, limitObject.periodAmount)
    [] limitObject.periodUnit = "day" ->
         AddDays(untilTimestamp, limitObject.periodAmount)
    [] limitObject.periodUnit = "week" ->
         AddDays(untilTimestamp, limitObject.periodAmount * 7)
    [] limitObject.periodUnit = "month" ->
         AddMonths(untilTimestamp, limitObject.periodAmount)
    [] OTHER -> untilTimestamp

\* The switch of handleModelConfigUpdate: one period before untilTimestamp;
\* its default branch leaves sinceDate at untilDate.
sinceDateOf(untilTimestamp, limitObject) ==
  CASE limitObject.periodUnit = "hour" ->
         AddHours(untilTimestamp, 0 - limitObject.periodAmount)
    [] limitObject.periodUnit = "day" ->
         AddDays(untilTimestamp, 0 - limitObject.periodAmount)
    [] limitObject.periodUnit = "week" ->
         AddDays(untilTimestamp, 0 - limitObject.periodAmount * 7)
    [] limitObject.periodUnit = "month" ->
         AddMonths(untilTimestamp, 0 - limitObject.periodAmount)
    [] OTHER -> untilTimestamp

\* The switch of checkAndResetExpiredModels (and of the panel's reset
\* button): its default branch adds 3 hours, and so does the fallback for a
\* result that is not after now.
sweepUntilOf(nowTimestamp, limitObject) ==
  IF HasLimit(limitObject)
     /\ limitObject.periodUnit # "unlimited" /\ limitObject.periodUnit # "none"
  THEN LET u == CASE limitObject.periodUnit = "hour" ->
                       AddHours(nowTimestamp, limitObject.periodAmount)
                  [] limitObject.periodUnit = "day" ->
                       AddDays(nowTimestamp, limitObject.periodAmount)
                  [] limitObject.periodUnit = "week" ->
                       AddDays(nowTimestamp, limitObject.periodAmount * 7)
                  [] limitObject.periodUnit = "month" ->
                       AddMonths(nowTimestamp, limitObject.periodAmount)
                  [] OTHER -> AddHours(nowTimestamp, 3)
       IN IF u <= nowTimestamp THEN AddHours(nowTimestamp, 3) ELSE u
  ELSE Null

\* ------------------------------------------------------------------ state

VARIABLES
  now,        \* Date.now(), in hours
  modelData,  \* chrome.storage.local "modelData": model name -> record
  userPlan,   \* chrome.storage.local "userPlan": "unset", "FREE" or "PLUS"
  bgUp,       \* the background answers messages
  handlers,   \* the background's message handlers that are at an await
  sweeps,     \* the content script's checkAndResetExpiredModels calls in flight
  roll,       \* the updateFutureModelTimestamps call in flight
  sent,       \* events so far (see MaxMsgs)
  acks,       \* per model: incrementModelCount messages answered with success
  onlyIncrements, \* no other mutating message has been received so far
  last,       \* the last write to modelData: the operation and its model
  page,       \* the content script's flags, and what its last send returned
  popup,      \* the popup's connection check (sendPingWithRetries)
  calc,       \* period arithmetic in progress on one record and limit object
  observer    \* the page's PerformanceObserver: its clock, checks and sends

vars == <<now, modelData, userPlan, bgUp, handlers, sweeps, roll, sent, acks,
          onlyIncrements, last, page, popup, calc, observer>>

\* A stored record; a field the code never set is Undef.
Rec(c, start, next, limit) ==
  [count |-> c, lastResetTimestamp |-> start, nextResetTime |-> next,
   limitResetTime |-> limit]

NoName == << >>
EmptyData == [k \in {} |-> Rec(0, Undef, Undef, Undef)]

\* modelData[m] = r
Put(d, m, r) == [k \in (DOMAIN d) \cup {m} |-> IF k = m THEN r ELSE d[k]]

Has(d, m) == m \in DOMAIN d

\* The stored value as it is.
getUserPlanFromStorage_raw == userPlan

\* getUserPlanFromStorage: result.userPlan || 'FREE'
getUserPlanFromStorage == IF userPlan = "unset" THEN "FREE" ELSE userPlan

\* A handler of the background's onMessage listener, suspended at an await:
\* pc = "data" after getModelDataFromStorage was issued (data is what it
\* reads), pc = "plan" after getUserPlanFromStorage was issued.
\* The fields model .. resetCounter are the message's; sweep is the sweep that
\* awaits the response (0: none); sentAt, warning and stated record when the
\* message was sent and what the banner behind a rateLimitHit showed
\* (resetsDate: the date of its "until it resets" phrase), and readFailed
\* that chrome.storage.local.get threw for this handler.
IdleHandler ==
  [pc |-> "idle", action |-> "none", model |-> NoName, since |-> Undef,
   until |-> Undef, count |-> Undef, resetCounter |-> FALSE, plan |-> "none",
   data |-> EmptyData, sweep |-> 0, sentAt |-> 0, warning |-> FALSE,
   stated |-> Null, readFailed |-> FALSE, resetsDate |-> Null]

\* One call of checkAndResetExpiredModels.
\* attempts counts the sends of the retry loop the call is in (for the
\* reset loop: for model cur).
Sweep(pc, nowTimestamp, retries, modelsToReset, plan, cur, resetRetries) ==
  [pc |-> pc, nowTimestamp |-> nowTimestamp, retries |-> retries,
   modelsToReset |-> modelsToReset, plan |-> plan, cur |-> cur,
   resetRetries |-> resetRetries, attempts |-> 0]

IdleSweep == Sweep("idle", 0, 0, {}, "FREE", NoName, 0)

\* examined: the models whose record the last completed run of
\* updateFutureModelTimestamps took through its period arithmetic.
\* skipped: the models whose record that run passed over (no "Until" after
\* now, or no limit object).
IdleRoll ==
  [pc |-> "idle", data |-> EmptyData, plan |-> "FREE", examined |-> {}, skipped |-> {}]

\* The content script's globals extensionContextValid and reloadMessageShown;
\* lastCall is what its last safeSendMessage or performHealthCheck did:
\* "answered" (sent, and the response returned), "failed" (sent, no
\* response) or "skipped" (not sent). currentPlan is the plan
\* updateInPagePanelData was answered ("none" before it asked).
InitialPage ==
  [extensionContextValid |-> TRUE, reloadMessageShown |-> FALSE,
   lastCall |-> "none", currentPlan |-> "none"]

\* The catch block of safeSendMessage for 'Extension context invalidated'
\* and 'Could not establish connection'.
sendFailed(pg) == [pg EXCEPT !.extensionContextValid = FALSE]

\* showReloadPageMessage
showReloadPageMessage(pg) == [pg EXCEPT !.reloadMessageShown = TRUE]

\* The popup's checkConnection: sendPingWithRetries is at pc "ping" with
\* retriesLeft; attempts counts the pings sent.
IdlePopup == [pc |-> "idle", retriesLeft |-> 0, attempts |-> 0, status |-> "none"]

\* calc: fn is the function whose arithmetic runs, pc its position, value
\* its variable nextPeriodStart (updateFutureModelTimestamps),
\* newUntilTimestamp (checkAndResetExpiredModels) or sinceDate
\* (handleModelConfigUpdate); modelInfo is the record it works on and, when
\* pc is "done", the record it leaves.
IdleCalc ==
  [fn |-> "none", pc |-> "idle", modelInfo |-> Rec(0, Undef, Undef, Undef),
   limitObject |-> NoLimit, value |-> Undef]

\* The page's clock reads PageOpened (in seconds) when the content script
\* starts and advances MaxSeconds times; MaxCalls conversation requests are
\* seen by the PerformanceObserver.
PageOpened == 10
MaxSeconds == 8
MaxCalls == 3
CallIds == 1..MaxCalls

\* if (now - mostRecentIncrement > 5000), in seconds
ThrottleSeconds == 5
\* if (waitCount < 10)
MaxWaitCount == 10

\* A checkForCompletion closure: pc "none" before the request is seen,
\* "waiting" for its timer, "done" after it returned true.
NoCheck == [pc |-> "none", due |-> 0, waitCount |-> 0]

\* observer: clock is the page's Date.now(); currentModel and
\* processedMessageIds (the instants of its perf_obs_ ids) are the content
\* script's globals; checks are the closures of the requests seen; sentAt
\* lists the instants at which incrementCounterInBackground was called.
IdleObserver ==
  [clock |-> PageOpened, currentModel |-> NoName, processedMessageIds |-> {},
   checks |-> [c \in CallIds |-> NoCheck], sentAt |-> << >>]

HandlerIds == 1..MaxHandlers
SweepIds == 1..MaxSweeps

FreeHandler(h) ==
  /\ handlers[h].pc = "idle"
  /\ \A k \in HandlerIds : k < h => handlers[k].pc # "idle"

FreeSweep(s) ==
  /\ sweeps[s].pc = "idle"
  /\ \A k \in SweepIds : k < s => sweeps[k].pc # "idle"

Init ==
  /\ now = StartTime
  /\ modelData = EmptyData
  /\ userPlan = "unset"
  /\ bgUp = TRUE
  /\ handlers = [h \in HandlerIds |-> IdleHandler]
  /\ sweeps = [s \in SweepIds |-> IdleSweep]
  /\ roll = IdleRoll
  /\ sent = 0
  /\ acks = [m \in Models \cup UnknownModels \cup MatcherModels |-> 0]
  /\ onlyIncrements = TRUE
  /\ last = [op |-> "none", model |-> NoName]
  /\ page = InitialPage
  /\ popup = IdlePopup
  /\ calc = IdleCalc
  /\ observer = IdleObserver

\* ------------------------------------------------------------ environment

Tick ==
  /\ now < MaxTime
  /\ now' = now + 1
  /\ UNCHANGED <<observer, calc, page, popup, modelData, userPlan, bgUp, handlers, sweeps, roll, sent, acks,
                 onlyIncrements, last>>

\* The service worker stops answering (it was unloaded, or the extension
\* context was invalidated) and answers again.
BackgroundStops ==
  /\ bgUp
  /\ bgUp' = FALSE
  /\ sent' = sent + 1
  /\ UNCHANGED <<observer, calc, page, popup, now, modelData, userPlan, handlers, sweeps, roll, acks,
                 onlyIncrements, last>>

BackgroundStarts ==
  /\ ~bgUp
  /\ bgUp' = TRUE
  /\ UNCHANGED <<observer, calc, page, popup, now, modelData, userPlan, handlers, sweeps, roll, sent, acks,
                 onlyIncrements, last>>

\* --------------------------------------------- the handlers' computations

\* incrementModelCounterInStorage, from the map it read to the map it saves
\* An increment that counts down.
incrementedData_down(data, modelFullName, t) ==
  LET d == IF Has(data, modelFullName) THEN data
           ELSE Put(data, modelFullName, Rec(0, t, Undef, Undef))
  IN Put(d, modelFullName, [d[modelFullName] EXCEPT !.count = @ - 1])

\* An increment that starts the window again.
incrementedData_restarting(data, modelFullName, t) ==
  LET d == IF Has(data, modelFullName) THEN data
           ELSE Put(data, modelFullName, Rec(0, t, Undef, Undef))
  IN Put(d, modelFullName, [d[modelFullName] EXCEPT !.count = @ + 1,
                                                    !.lastResetTimestamp = t])

incrementedData(data, modelFullName, t) ==
  LET d == IF Has(data, modelFullName) THEN data
           ELSE Put(data, modelFullName, Rec(0, t, Undef, Undef))
  IN Put(d, modelFullName, [d[modelFullName] EXCEPT !.count = @ + 1])

\* resetAllCountersInStorage, from the map it read to the map it saves
resetAllData(data, t) ==
  [k \in DOMAIN data |-> [data[k] EXCEPT !.count = 0, !.lastResetTimestamp = t]]

\* handleRateLimitHit, from the map it read to the map it saves.  The branch
\* for o3 warning texts asks for a limit object with periodUnit 'week', which
\* no entry of getModelLimits has, and it reads the fields sinceTimestamp and
\* untilTimestamp of parseWarningTimestamps' result, which has the fields
\* since and until: it changes neither newSinceTimestamp nor
\* newUntilTimestamp.
rateLimitData(data, modelSlug, newSinceTimestampFromBanner, resetCounter, plan, t) ==
  LET limitObject ==
        findLimitObjectForModel(modelSlug, toLowerCase(modelSlug), getModelLimits(plan))
      newSince == IF Truthy(newSinceTimestampFromBanner)
                    THEN newSinceTimestampFromBanner
                    ELSE OrElse(newSinceTimestampFromBanner, t)
      newUntil == IF HasLimit(limitObject)
                    THEN calculateNextTimestampAfterPeriod(newSince, limitObject)
                    ELSE Null
      d == IF Has(data, modelSlug) THEN data
           ELSE Put(data, modelSlug, Rec(0, Undef, Undef, Undef))
      c == IF resetCounter THEN 0 ELSE d[modelSlug].count
  IN Put(d, modelSlug, Rec(c, newSince, newUntil, newUntil))

\* A reset that writes nextResetTime alone.
singleResetData_oneField(data, modelFullName, t, calculatedUntil) ==
  Put(data, modelFullName, Rec(0, t, calculatedUntil, Undef))

\* handleSingleModelReset up to its write, given the nextResetTime it settles on
singleResetData(data, modelFullName, t, calculatedUntil) ==
  Put(data, modelFullName, Rec(0, t, calculatedUntil, calculatedUntil))

\* handleSingleModelReset's own calculation of "Until", for a message without
\* a numeric nextResetTime
singleResetUntil(modelFullName, t, messageUntil, plan) ==
  LET limitObject ==
        findLimitObjectForModel(modelFullName, toLowerCase(modelFullName),
                                getModelLimits(plan))
  IN IF HasLimit(limitObject)
       THEN calculateNextTimestampAfterPeriod(t, limitObject)
       ELSE messageUntil

\* An override that adds the stated count to the stored one.
configData_adding(data, modelName, count, untilTimestamp, plan) ==
  LET limitObject ==
        findLimitObjectForModel(modelName, toLowerCase(modelName), getModelLimits(plan))
      start == IF HasLimit(limitObject) /\ limitObject.periodUnit # "unlimited"
                  /\ limitObject.periodUnit # "none"
                 THEN sinceDateOf(untilTimestamp, limitObject)
                 ELSE data[modelName].lastResetTimestamp
  IN Put(data, modelName,
         Rec(data[modelName].count + count, start, untilTimestamp, untilTimestamp))

\* handleModelConfigUpdate, from the map it read (which has modelName) to the
\* map it saves
configData(data, modelName, count, untilTimestamp, plan) ==
  LET limitObject ==
        findLimitObjectForModel(modelName, toLowerCase(modelName), getModelLimits(plan))
      start == IF HasLimit(limitObject) /\ limitObject.periodUnit # "unlimited"
                  /\ limitObject.periodUnit # "none"
                 THEN sinceDateOf(untilTimestamp, limitObject)
                 ELSE data[modelName].lastResetTimestamp
  IN Put(data, modelName, Rec(count, start, untilTimestamp, untilTimestamp))

\* ---------------------------------------------------- the message handlers

Spawn(h, rec) == handlers' = [handlers EXCEPT ![h] = rec]

\* A handler's response reaches the sweep that awaits it.
Answer(h) ==
  LET s == handlers[h].sweep IN
  IF s = 0 THEN UNCHANGED sweeps
  ELSE LET rest == sweeps[s].modelsToReset \ {sweeps[s].cur} IN
       sweeps' = [sweeps EXCEPT ![s] =
                    IF rest = {} THEN IdleSweep
                    ELSE [@ EXCEPT !.pc = "reset", !.modelsToReset = rest,
                                   !.cur = NoName, !.attempts = 0]]

\* incrementModelCount: a page counted a completed conversation request.
ReceiveIncrement(m) ==
  /\ bgUp
  /\ \E h \in HandlerIds :
       /\ FreeHandler(h)
       /\ Spawn(h, [IdleHandler EXCEPT !.pc = "data",
                      !.action = "incrementModelCount", !.model = m,
                      !.data = modelData])
  /\ sent' = sent + 1
  /\ UNCHANGED <<observer, calc, page, popup, now, modelData, userPlan, bgUp, sweeps, roll, acks,
                 onlyIncrements, last>>

FinishIncrement(h) ==
  /\ handlers[h].pc = "data"
  /\ handlers[h].action = "incrementModelCount"
  /\ modelData' = incrementedData(handlers[h].data, handlers[h].model, now)
  /\ acks' = [acks EXCEPT ![handlers[h].model] = @ + 1]
  /\ last' = [op |-> "incrementModelCount", model |-> handlers[h].model]
  /\ Spawn(h, IdleHandler)
  /\ UNCHANGED <<observer, calc, page, popup, now, userPlan, bgUp, sweeps, roll, sent, onlyIncrements>>

\* incrementModelCount while chrome.storage.local.get throws:
\* getModelDataFromStorage catches the error and returns {}.
ReceiveIncrementReadFails(m) ==
  /\ bgUp
  /\ \E h \in HandlerIds :
       /\ FreeHandler(h)
       /\ Spawn(h, [IdleHandler EXCEPT !.pc = "data",
                      !.action = "incrementModelCount", !.model = m,
                      !.data = EmptyData, !.readFailed = TRUE])
  /\ sent' = sent + 1
  /\ UNCHANGED <<observer, calc, page, popup, now, modelData, userPlan, bgUp, sweeps, roll, acks,
                 onlyIncrements, last>>

\* incrementModelCount while chrome.storage.local.set throws:
\* saveModelDataToStorage catches the error, and the handler answers with
\* status success.
FinishIncrementWriteFails(h) ==
  /\ handlers[h].pc = "data"
  /\ handlers[h].action = "incrementModelCount"
  /\ acks' = [acks EXCEPT ![handlers[h].model] = @ + 1]
  /\ Spawn(h, IdleHandler)
  /\ UNCHANGED <<observer, calc, page, popup, now, modelData, userPlan, bgUp, sweeps, roll, sent,
                 onlyIncrements, last>>

\* resetAllCounters: the popup's "reset all" button.
ReceiveResetAll ==
  /\ bgUp
  /\ \E h \in HandlerIds :
       /\ FreeHandler(h)
       /\ Spawn(h, [IdleHandler EXCEPT !.pc = "data",
                      !.action = "resetAllCounters", !.data = modelData])
  /\ sent' = sent + 1
  /\ onlyIncrements' = FALSE
  /\ UNCHANGED <<observer, calc, page, popup, now, modelData, userPlan, bgUp, sweeps, roll, acks, last>>

FinishResetAll(h) ==
  /\ handlers[h].pc = "data"
  /\ handlers[h].action = "resetAllCounters"
  /\ modelData' = resetAllData(handlers[h].data, now)
  /\ last' = [op |-> "resetAllCounters", model |-> NoName]
  /\ Spawn(h, IdleHandler)
  /\ UNCHANGED <<observer, calc, page, popup, now, userPlan, bgUp, sweeps, roll, sent, acks, onlyIncrements>>

\* saveUserPlanToStorage's check of the value
validPlan_any(plan) == TRUE

validPlan(plan) == plan \in {"FREE", "PLUS"}

\* setUserPlan: saveUserPlanToStorage checks the value and issues the write;
\* without the write the message is answered with status error.
SetUserPlan(p) ==
  /\ bgUp
  /\ userPlan' = IF validPlan(p) THEN p ELSE userPlan
  /\ last' = IF validPlan(p) THEN last ELSE [op |-> "error", model |-> NoName]
  /\ sent' = sent + 1
  /\ UNCHANGED <<observer, calc, page, popup, now, modelData, bgUp, handlers, sweeps, roll, acks,
                 onlyIncrements>>

\* setUserPlan with FREE or PLUS while chrome.storage.local.set throws:
\* saveUserPlanToStorage returns false and the message is answered with
\* status error.
SetUserPlanWriteFails(p) ==
  /\ bgUp
  /\ validPlan(p)
  /\ last' = [op |-> "error", model |-> NoName]
  /\ sent' = sent + 1
  /\ UNCHANGED <<observer, calc, page, popup, now, modelData, userPlan, bgUp, handlers,
                 sweeps, roll, acks, onlyIncrements>>

\* getUserPlan, asked by the panel (updateInPagePanelData): the answer is
\* what getUserPlanFromStorage returns, 'FREE' when the read throws.
GetUserPlan(readFails) ==
  /\ bgUp
  /\ page' = [page EXCEPT !.currentPlan =
                IF readFails THEN "FREE" ELSE getUserPlanFromStorage]
  /\ sent' = sent + 1
  /\ UNCHANGED <<observer, calc, popup, now, modelData, userPlan, bgUp, handlers, sweeps,
                 roll, acks, onlyIncrements, last>>

\* A message as the listener reads it: name is its modelFullName, modelSlug
\* or modelName (NoName: missing), count and until are Undef when missing,
\* hasData says whether it carries modelData.
Message(action, name, plan, count, until, hasData) ==
  [action |-> action, name |-> name, plan |-> plan, count |-> count,
   until |-> until, hasData |-> hasData]

\* The listener finds no branch for the message and answers
\* 'Unhandled message type'.
unhandled(message) ==
  CASE message.action \in {"ping", "healthCheck", "getUserPlan", "getModelData",
                           "rateLimitHit", "resetSingleModelCounter",
                           "resetAllCounters", "updateModelConfig"} -> FALSE
    [] message.action \in {"incrementModelCount", "getModelCount"}
         -> message.name = NoName
    [] message.action = "setUserPlan" -> message.plan = ""
    [] message.action \in {"saveModelDataDirectly", "apiRequestDetected"}
         -> ~message.hasData
    [] OTHER -> TRUE

\* The handler of the message throws at its first check, before it reads
\* the store.  isNaN(undefined) holds, isNaN(null) does not.
throwsInvalid(message) ==
  CASE message.action \in {"rateLimitHit", "resetSingleModelCounter"}
         -> message.name = NoName
    [] message.action = "updateModelConfig"
         -> \/ message.name = NoName
            \/ message.count = Undef
            \/ message.until = Undef
    [] OTHER -> FALSE

\* Messages with a field missing, and one with an action the listener does
\* not know.
MalformedMessages ==
  {Message("incrementModelCount", NoName, "", Undef, Undef, FALSE),
   Message("setUserPlan", NoName, "", Undef, Undef, FALSE),
   Message("saveModelDataDirectly", NoName, "", Undef, Undef, FALSE),
   Message("rateLimitHit", NoName, "", Undef, Undef, FALSE),
   Message("resetSingleModelCounter", NoName, "", Undef, Undef, FALSE),
   Message("updateModelConfig", NoName, "FREE", 1, StartTime, FALSE),
   Message("updateModelConfig", N_gpt4o, "FREE", Undef, StartTime, FALSE),
   Message("updateModelConfig", N_gpt4o, "FREE", 1, Undef, FALSE),
   Message("countersDisplayShouldRefresh", NoName, "", Undef, Undef, FALSE)}

\* The listener receives a message it answers with status error without a
\* storage operation.
ReceiveMalformed(message) ==
  /\ bgUp
  /\ unhandled(message) \/ throwsInvalid(message)
  /\ last' = [op |-> "error", model |-> message.name]
  /\ sent' = sent + 1
  /\ UNCHANGED <<observer, calc, page, popup, now, modelData, userPlan, bgUp, handlers, sweeps, roll, acks,
                 onlyIncrements>>

\* ----------------------------------------------------------- banner check

\* What checkAndParseRateLimitBanner and parseRateLimitBanner read off a
\* banner: the model slug its text names, whether the text has "remaining" or
\* "left" (a warning: the cap is not reached yet), the date of an "until it
\* resets <Month> <Day>, <Year>" phrase (Null without one), and the instant
\* its clock-time or relative-duration phrase states (Null without one).
Banner(slug, remaining, resetsDate, stated) ==
  [modelSlug |-> slug, remaining |-> remaining, resetsDate |-> resetsDate,
   stated |-> stated]

\* parseRateLimitBanner: only the return for an o3 warning with a reset date
\* carries isWarningBanner and warningText.
parseRateLimitBanner(banner, t) ==
  IF banner.remaining /\ includes(toLowerCase(banner.modelSlug), N_o3)
     /\ banner.resetsDate # Null
  THEN [modelSlug |-> banner.modelSlug, resetTimestamp |-> banner.resetsDate,
        isWarningBanner |-> TRUE, warningText |-> TRUE]
  ELSE [modelSlug |-> banner.modelSlug,
        resetTimestamp |-> IF Truthy(banner.stated) THEN banner.stated
                           ELSE AddHours(t, 3),
        isWarningBanner |-> FALSE, warningText |-> FALSE]

\* The hour of the day of "H:MM AM/PM"
hours24(H, ampm) ==
  IF ampm = "PM" /\ H < 12 THEN H + 12
  ELSE IF ampm = "AM" /\ H = 12 THEN 0
  ELSE H

\* new Date(now.getFullYear(), now.getMonth(), now.getDate(), 0, 0, 0, 0)
DayStart(t) == (t \div 24) * 24

\* A clock time that is moved to the next day when it is now, too.
parseAbsoluteTime_orNow(H, ampm, t) ==
  LET potentialResetDate == DayStart(t) + hours24(H, ampm)
  IN IF potentialResetDate <= t THEN AddDays(potentialResetDate, 1)
     ELSE potentialResetDate

\* parseRateLimitBanner's reading of an absolute time "H:00 AM/PM" at time t
parseAbsoluteTime(H, ampm, t) ==
  LET potentialResetDate == DayStart(t) + hours24(H, ampm)
  IN IF potentialResetDate < t THEN AddDays(potentialResetDate, 1)
     ELSE potentialResetDate

MinutesPerHour == 60

\* The relative-duration phrase of a banner's text: "in N hours and M
\* minutes", "in N hours" (minutes Null) or "in M minutes" (hours Null).
Phrase(N, M) == [hours |-> N, minutes |-> M]

\* The relative-time patterns of parseRateLimitBanner, at minute tm (minutes
\* since the epoch): the hour patterns are tried first and take the digits
\* before "hours", then the minute patterns.
parseRelativeTime(phrase, tm) ==
  IF phrase.hours # Null THEN tm + phrase.hours * MinutesPerHour
  ELSE IF phrase.minutes # Null THEN tm + phrase.minutes
  ELSE Null

\* parseWarningTimestamps' relative time format, at minute tm: hourRegex
\* wants "N hours and M minutes", minuteRegex "M minutes"; without a match
\* the "until" is estimated from the limit object (in hours), or null.
parseWarningTimestamps(phrase, tm, limitObject) ==
  IF phrase.hours # Null /\ phrase.minutes # Null
    THEN tm + phrase.hours * MinutesPerHour + phrase.minutes
  ELSE IF phrase.minutes # Null THEN tm + phrase.minutes
  ELSE IF HasLimit(limitObject) /\ limitObject.periodUnit # "unlimited"
          /\ limitObject.periodUnit # "none"
    THEN calculateNextTimestampAfterPeriod(tm \div MinutesPerHour, limitObject)
           * MinutesPerHour + (tm % MinutesPerHour)
  ELSE Null

modelNameMap ==
  <<
     <<<<"g","p","t","-","4">>,
       <<"g","p","t","-","4">>>>,
     <<<<"g","p","t","4">>,
       <<"g","p","t","-","4">>>>,
     <<<<"g","p","t","-","4","o">>,
       <<"g","p","t","-","4","o">>>>,
     <<<<"g","p","t","4","o">>,
       <<"g","p","t","-","4","o">>>>,
     <<<<"g","p","t","-","4","-","o">>,
       <<"g","p","t","-","4","o">>>>,
     <<<<"4","o">>,
       <<"g","p","t","-","4","o">>>>,
     <<<<"g","p","t","-","4","-","t","u","r","b","o">>,
       <<"g","p","t","-","4">>>>,
     <<<<"g","p","t","-","4","-","1","1","0","6">>,
       <<"g","p","t","-","4">>>>,
     <<<<"g","p","t","-","4","o","-","m","i","n","i">>,
       <<"g","p","t","-","4","o","-","m","i","n","i">>>>,
     <<<<"g","p","t","4","o","-","m","i","n","i">>,
       <<"g","p","t","-","4","o","-","m","i","n","i">>>>,
     <<<<"4","o","-","m","i","n","i">>,
       <<"g","p","t","-","4","o","-","m","i","n","i">>>>,
     <<<<"o","3">>,
       <<"o","3">>>>,
     <<<<"o","3","-","m","i","n","i">>,
       <<"o","3","-","m","i","n","i">>>>,
     <<<<"o","4","-","m","i","n","i">>,
       <<"o","4","-","m","i","n","i">>>>,
     <<<<"o","4","-","m","i","n","i","-","h","i","g","h">>,
       <<"o","4","-","m","i","n","i","-","h","i","g","h">>>>,
     <<<<"o","4","m","i","n","i","h","i">>,
       <<"o","4","-","m","i","n","i","-","h","i","g","h">>>>,
     <<<<"g","p","t","-","4","o","-","m","i","n","i","-","h","i","g","h">>,
       <<"o","4","-","m","i","n","i","-","h","i","g","h">>>> >>

\* normalizeModelName; the slugs it is given are lower-case letters, digits
\* and hyphens, which its trim() and its two replace() calls leave alone.
normalizeModelName(rawModelName) ==
  LET cleaned == toLowerCase(rawModelName)
      direct == {i \in 1..Len(modelNameMap) : modelNameMap[i][1] = cleaned}
      partial == {i \in 1..Len(modelNameMap) : includes(cleaned, modelNameMap[i][1])}
  IN IF direct # {} THEN modelNameMap[CHOOSE i \in direct : TRUE][2]
     ELSE IF partial # {}
       THEN modelNameMap[CHOOSE i \in partial : \A j \in partial : i <= j][2]
     ELSE IF includes(cleaned, <<"4","o">>) /\ includes(cleaned, <<"m","i","n","i">>)
       THEN N_gpt4omini
     ELSE IF includes(cleaned, <<"4","o">>) THEN N_gpt4o
     ELSE IF includes(cleaned, N_o4) THEN N_o4mini
     ELSE IF includes(cleaned, N_o3) THEN N_o3
     ELSE cleaned

\* The rateLimitHit message checkAndParseRateLimitBanner sends.
rateLimitMessage(banner, t) ==
  LET parsedInfo == parseRateLimitBanner(banner, t)
      isWarning == parsedInfo.isWarningBanner
  IN [modelSlug |-> normalizeModelName(parsedInfo.modelSlug),
      newSinceTimestampFromBanner |-> parsedInfo.resetTimestamp,
      resetCounter |-> ~isWarning]

\* The instants a banner's text states at time t.
StatedTimes(t) == {Null, t + 1}

\* A page sees a limit-hit or warning banner and sends rateLimitHit.
ReceiveRateLimitHit(banner) ==
  /\ bgUp
  /\ LET msg == rateLimitMessage(banner, now) IN
     \E h \in HandlerIds :
       /\ FreeHandler(h)
       /\ Spawn(h, [IdleHandler EXCEPT !.pc = "data", !.action = "rateLimitHit",
                      !.model = msg.modelSlug,
                      !.since = msg.newSinceTimestampFromBanner,
                      !.resetCounter = msg.resetCounter,
                      !.data = modelData, !.sentAt = now,
                      !.warning = banner.remaining,
                      !.resetsDate = banner.resetsDate,
                      !.stated = IF ~banner.remaining \/ banner.resetsDate = Null
                                   THEN banner.stated ELSE banner.resetsDate])
  /\ sent' = sent + 1
  /\ onlyIncrements' = FALSE
  /\ UNCHANGED <<observer, calc, page, popup, now, modelData, userPlan, bgUp, sweeps, roll, acks, last>>

\* handleRateLimitHit goes on to read the plan.
RateLimitHitReadsPlan(h) ==
  /\ handlers[h].pc = "data"
  /\ handlers[h].action = "rateLimitHit"
  /\ Spawn(h, [handlers[h] EXCEPT !.pc = "plan", !.plan = getUserPlanFromStorage])
  /\ UNCHANGED <<observer, calc, page, popup, now, modelData, userPlan, bgUp, sweeps, roll, sent, acks,
                 onlyIncrements, last>>

FinishRateLimitHit(h) ==
  /\ handlers[h].pc = "plan"
  /\ handlers[h].action = "rateLimitHit"
  /\ modelData' = rateLimitData(handlers[h].data, handlers[h].model,
                                handlers[h].since, handlers[h].resetCounter,
                                handlers[h].plan, now)
  /\ last' = [op |-> "rateLimitHit", model |-> handlers[h].model]
  /\ Spawn(h, IdleHandler)
  /\ UNCHANGED <<observer, calc, page, popup, now, userPlan, bgUp, sweeps, roll, sent, acks, onlyIncrements>>

\* ------------------------------------------------- resetSingleModelCounter

\* The popup's per-model reset button: a message without timestamps.
ReceivePopupReset(m) ==
  /\ bgUp
  /\ Has(modelData, m)
  /\ \E h \in HandlerIds :
       /\ FreeHandler(h)
       /\ Spawn(h, [IdleHandler EXCEPT !.pc = "data",
                      !.action = "resetSingleModelCounter", !.model = m,
                      !.since = Undef, !.until = Undef, !.data = modelData,
                      !.sentAt = now])
  /\ sent' = sent + 1
  /\ onlyIncrements' = FALSE
  /\ UNCHANGED <<observer, calc, page, popup, now, modelData, userPlan, bgUp, sweeps, roll, acks, last>>

\* The in-page panel's per-model reset button: it reads the plan and sends
\* "now" and the "Until" it calculates from the content script's table.
ReceivePanelReset(m) ==
  /\ bgUp
  /\ Has(modelData, m)
  /\ LET limitObject ==
           findLimitObjectForModel(m, toLowerCase(m),
                                   sweepModelLimits(getUserPlanFromStorage))
     IN \E h \in HandlerIds :
          /\ FreeHandler(h)
          /\ Spawn(h, [IdleHandler EXCEPT !.pc = "data",
                         !.action = "resetSingleModelCounter", !.model = m,
                         !.since = now, !.until = sweepUntilOf(now, limitObject),
                         !.data = modelData, !.sentAt = now])
  /\ sent' = sent + 1
  /\ onlyIncrements' = FALSE
  /\ UNCHANGED <<observer, calc, page, popup, now, modelData, userPlan, bgUp, sweeps, roll, acks, last>>

\* handleSingleModelReset after it read the map, for a message whose
\* nextResetTime is a number: it saves.
FinishSingleReset(h) ==
  /\ handlers[h].pc = "data"
  /\ handlers[h].action = "resetSingleModelCounter"
  /\ IsNumber(handlers[h].until)
  /\ modelData' = singleResetData(handlers[h].data, handlers[h].model,
                                  OrElse(handlers[h].since, now), handlers[h].until)
  /\ last' = [op |-> IF handlers[h].sweep = 0 THEN "resetSingleModelCounter"
                     ELSE "expiryReset",
              model |-> handlers[h].model]
  /\ Answer(h)
  /\ Spawn(h, IdleHandler)
  /\ UNCHANGED <<observer, calc, page, popup, now, userPlan, bgUp, roll, sent, acks, onlyIncrements>>

\* handleSingleModelReset after it read the map, for a message without a
\* numeric nextResetTime: "now" is settled and it goes on to read the plan.
SingleResetReadsPlan(h) ==
  /\ handlers[h].pc = "data"
  /\ handlers[h].action = "resetSingleModelCounter"
  /\ ~IsNumber(handlers[h].until)
  /\ Spawn(h, [handlers[h] EXCEPT !.pc = "plan",
                 !.since = OrElse(handlers[h].since, now),
                 !.plan = getUserPlanFromStorage])
  /\ UNCHANGED <<observer, calc, page, popup, now, modelData, userPlan, bgUp, sweeps, roll, sent, acks,
                 onlyIncrements, last>>

FinishSingleResetCalculated(h) ==
  /\ handlers[h].pc = "plan"
  /\ handlers[h].action = "resetSingleModelCounter"
  /\ modelData' = singleResetData(handlers[h].data, handlers[h].model,
                    handlers[h].since,
                    singleResetUntil(handlers[h].model, handlers[h].since,
                                     handlers[h].until, handlers[h].plan))
  /\ last' = [op |-> IF handlers[h].sweep = 0 THEN "resetSingleModelCounter"
                     ELSE "expiryReset",
              model |-> handlers[h].model]
  /\ Answer(h)
  /\ Spawn(h, IdleHandler)
  /\ UNCHANGED <<observer, calc, page, popup, now, userPlan, bgUp, roll, sent, acks, onlyIncrements>>

\* ------------------------------------------------------- updateModelConfig

\* The instants a manual override may state as "Until" at time t.
UntilChoices(t) == {t - 1, t + 1}

\* saveModelConfig (popup and panel): it sends only for a model the map it
\* fetched has, with the plan it fetched.
ReceiveModelConfig(m, c, u) ==
  /\ bgUp
  /\ Has(modelData, m)
  /\ \E h \in HandlerIds :
       /\ FreeHandler(h)
       /\ Spawn(h, [IdleHandler EXCEPT !.pc = "data",
                      !.action = "updateModelConfig", !.model = m,
                      !.count = c, !.until = u,
                      !.plan = getUserPlanFromStorage,
                      !.data = modelData, !.sentAt = now])
  /\ sent' = sent + 1
  /\ onlyIncrements' = FALSE
  /\ UNCHANGED <<observer, calc, page, popup, now, modelData, userPlan, bgUp, sweeps, roll, acks, last>>

\* updateModelConfig while chrome.storage.local.get throws: the handler
\* reads {}.
ReceiveModelConfigReadFails(m, c, u) ==
  /\ bgUp
  /\ Has(modelData, m)
  /\ \E h \in HandlerIds :
       /\ FreeHandler(h)
       /\ Spawn(h, [IdleHandler EXCEPT !.pc = "data",
                      !.action = "updateModelConfig", !.model = m,
                      !.count = c, !.until = u,
                      !.plan = getUserPlanFromStorage,
                      !.data = EmptyData, !.sentAt = now, !.readFailed = TRUE])
  /\ sent' = sent + 1
  /\ onlyIncrements' = FALSE
  /\ UNCHANGED <<observer, calc, page, popup, now, modelData, userPlan, bgUp, sweeps, roll, acks, last>>

\* updateModelConfig for a name the store has no record of any more: the
\* sender's map, fetched when the name had been counted, is older than the
\* store.
ReceiveModelConfigStale(m, c, u) ==
  /\ bgUp
  /\ acks[m] > 0
  /\ ~Has(modelData, m)
  /\ \E h \in HandlerIds :
       /\ FreeHandler(h)
       /\ Spawn(h, [IdleHandler EXCEPT !.pc = "data",
                      !.action = "updateModelConfig", !.model = m,
                      !.count = c, !.until = u,
                      !.plan = getUserPlanFromStorage,
                      !.data = modelData, !.sentAt = now])
  /\ sent' = sent + 1
  /\ onlyIncrements' = FALSE
  /\ UNCHANGED <<observer, calc, page, popup, now, modelData, userPlan, bgUp, sweeps, roll,
                 acks, last>>

\* An override that creates the record it does not find.
FinishModelConfig_creating(h) ==
  /\ handlers[h].pc = "data"
  /\ handlers[h].action = "updateModelConfig"
  /\ modelData' =
       IF Has(handlers[h].data, handlers[h].model)
         THEN configData(handlers[h].data, handlers[h].model, handlers[h].count,
                         handlers[h].until, handlers[h].plan)
         ELSE Put(handlers[h].data, handlers[h].model,
                  Rec(handlers[h].count, Undef, handlers[h].until, handlers[h].until))
  /\ last' = [op |-> "updateModelConfig", model |-> handlers[h].model]
  /\ Spawn(h, IdleHandler)
  /\ UNCHANGED <<observer, calc, page, popup, now, userPlan, bgUp, sweeps, roll, sent, acks,
                 onlyIncrements>>

FinishModelConfig(h) ==
  /\ handlers[h].pc = "data"
  /\ handlers[h].action = "updateModelConfig"
  /\ IF Has(handlers[h].data, handlers[h].model)
       THEN /\ modelData' = configData(handlers[h].data, handlers[h].model,
                                       handlers[h].count, handlers[h].until,
                                       handlers[h].plan)
            /\ last' = [op |-> "updateModelConfig", model |-> handlers[h].model]
       ELSE \* throw new Error(`Model ${modelName} not found in storage.`)
            /\ last' = [op |-> "error", model |-> handlers[h].model]
            /\ UNCHANGED modelData
  /\ Spawn(h, IdleHandler)
  /\ UNCHANGED <<observer, calc, page, popup, now, userPlan, bgUp, sweeps, roll, sent, acks, onlyIncrements>>

\* ------------------------------------------------------- the expiry sweep

\* The test of checkAndResetExpiredModels' first loop on one record.
isExpired(modelInfo, nowTimestamp) ==
  LET nextResetTime == OrElse(modelInfo.nextResetTime, modelInfo.limitResetTime)
  IN /\ Truthy(nextResetTime)
     /\ nextResetTime > 0
     /\ nowTimestamp > nextResetTime

modelsToResetOf(data, nowTimestamp) ==
  {m \in DOMAIN data : isExpired(data[m], nowTimestamp)}

\* The "Until" the sweep sends for a model it resets.
sweepUntil(m, plan, nowTimestamp) ==
  sweepUntilOf(nowTimestamp,
               findLimitObjectForModel(m, toLowerCase(m), sweepModelLimits(plan)))

\* checkAndResetExpiredModels is called: by the 60 s timer, by the 120 s
\* timer, on a visibility change and on startup.  Nothing keeps a call from
\* starting while another is at an await.  The call takes Date.now() and
\* sends its first ping.
SweepStart(s) ==
  /\ FreeSweep(s)
  /\ sweeps' = [sweeps EXCEPT ![s] =
       IF bgUp THEN Sweep("getData", now, 3, {}, "FREE", NoName, 0)
       ELSE [Sweep("ping", now, 2, {}, "FREE", NoName, 0) EXCEPT !.attempts = 1]]
  /\ page' = IF bgUp THEN page ELSE sendFailed(page)
  /\ UNCHANGED <<observer, calc, popup, now, modelData, userPlan, bgUp, handlers, roll, sent, acks,
                 onlyIncrements, last>>

\* A ping loop that never gives up.
SweepPing_forever(s) ==
  /\ sweeps[s].pc = "ping"
  /\ sweeps' = [sweeps EXCEPT ![s] =
       IF bgUp THEN [@ EXCEPT !.pc = "getData", !.retries = 3, !.attempts = 0]
       ELSE [@ EXCEPT !.attempts = @ + 1]]
  /\ page' = IF bgUp THEN page ELSE sendFailed(page)
  /\ UNCHANGED <<observer, calc, popup, now, modelData, userPlan, bgUp, handlers, roll, sent, acks,
                 onlyIncrements, last>>

\* A later attempt of the ping loop.
SweepPing(s) ==
  /\ sweeps[s].pc = "ping"
  /\ sweeps' = [sweeps EXCEPT ![s] =
       IF bgUp THEN [@ EXCEPT !.pc = "getData", !.retries = 3, !.attempts = 0]
       ELSE IF @.retries - 1 > 0
         THEN [@ EXCEPT !.retries = @ - 1, !.attempts = @ + 1]
       ELSE IdleSweep]
  /\ page' = IF bgUp THEN page
             ELSE IF sweeps[s].retries - 1 > 0 THEN sendFailed(page)
             ELSE showReloadPageMessage(sendFailed(page))
  /\ UNCHANGED <<observer, calc, popup, now, modelData, userPlan, bgUp, handlers, roll, sent, acks,
                 onlyIncrements, last>>

\* One attempt of the getModelData loop, and the first loop over the map.
SweepGetData(s) ==
  /\ sweeps[s].pc = "getData"
  /\ sweeps' = [sweeps EXCEPT ![s] =
       IF bgUp
         THEN IF modelsToResetOf(modelData, sweeps[s].nowTimestamp) = {} THEN IdleSweep
              ELSE [@ EXCEPT !.pc = "getPlan",
                             !.modelsToReset =
                               modelsToResetOf(modelData, sweeps[s].nowTimestamp)]
       ELSE IF @.retries - 1 > 0
         THEN [@ EXCEPT !.retries = @ - 1, !.attempts = @ + 1]
       ELSE IdleSweep]
  /\ page' = IF bgUp THEN page
             ELSE IF sweeps[s].retries - 1 > 0 THEN sendFailed(page)
             ELSE showReloadPageMessage(sendFailed(page))
  /\ UNCHANGED <<observer, calc, popup, now, modelData, userPlan, bgUp, handlers, roll, sent, acks,
                 onlyIncrements, last>>

\* getUserPlan, 'FREE' without an answer.
SweepGetPlan(s) ==
  /\ sweeps[s].pc = "getPlan"
  /\ sweeps' = [sweeps EXCEPT ![s] =
       [@ EXCEPT !.pc = "reset",
                 !.plan = IF bgUp THEN getUserPlanFromStorage ELSE "FREE"]]
  /\ page' = IF bgUp THEN page ELSE sendFailed(page)
  /\ UNCHANGED <<observer, calc, popup, now, modelData, userPlan, bgUp, handlers, roll, sent, acks,
                 onlyIncrements, last>>

\* One attempt of the reset loop for model m: the next model of
\* modelsToReset, or the one whose last attempt got no answer.
SweepSendReset(s, m) ==
  /\ sweeps[s].pc = "reset"
  /\ \/ sweeps[s].cur = NoName /\ m \in sweeps[s].modelsToReset
     \/ sweeps[s].cur = m
  /\ LET left == IF sweeps[s].cur = NoName THEN 3 ELSE sweeps[s].resetRetries
         rest == sweeps[s].modelsToReset \ {m}
         made == IF sweeps[s].cur = NoName THEN 0 ELSE sweeps[s].attempts
     IN IF bgUp
        THEN /\ \E h \in HandlerIds :
                  /\ FreeHandler(h)
                  /\ Spawn(h, [IdleHandler EXCEPT !.pc = "data",
                         !.action = "resetSingleModelCounter", !.model = m,
                         !.since = sweeps[s].nowTimestamp,
                         !.until = sweepUntil(m, sweeps[s].plan, sweeps[s].nowTimestamp),
                         !.data = modelData, !.sweep = s, !.sentAt = now])
             /\ sweeps' = [sweeps EXCEPT ![s] =
                             [@ EXCEPT !.pc = "wait", !.cur = m, !.resetRetries = left,
                                       !.attempts = made + 1]]
        ELSE /\ sweeps' = [sweeps EXCEPT ![s] =
                  IF left - 1 > 0
                    THEN [@ EXCEPT !.cur = m, !.resetRetries = left - 1,
                                   !.attempts = made + 1]
                  ELSE IF rest = {} THEN IdleSweep
                  ELSE [@ EXCEPT !.modelsToReset = rest, !.cur = NoName,
                                 !.attempts = 0]]
             /\ UNCHANGED handlers
  /\ page' = IF bgUp THEN page ELSE sendFailed(page)
  /\ UNCHANGED <<observer, calc, popup, now, modelData, userPlan, bgUp, roll, sent, acks,
                 onlyIncrements, last>>

\* ------------------------------------- the content script's sends, the popup

\* safeSendMessage with retries 0, on the content script's flags pg; up
\* says whether chrome.runtime.sendMessage returns a response, and without
\* one it rejects with 'Could not establish connection'.
safeSendMessage(pg, suppressErrors, up) ==
  IF ~pg.extensionContextValid /\ ~suppressErrors
    THEN [showReloadPageMessage(pg) EXCEPT !.lastCall = "skipped"]
  ELSE IF up THEN [pg EXCEPT !.lastCall = "answered"]
  ELSE IF suppressErrors THEN [sendFailed(pg) EXCEPT !.lastCall = "failed"]
  ELSE [showReloadPageMessage(sendFailed(pg)) EXCEPT !.lastCall = "failed"]

\* The content script calls safeSendMessage with a ping: with suppressErrors
\* (the 30 s timer, which shows the reload message without a response) or
\* with the default options.
SafeSend(suppressErrors) ==
  /\ page' = LET pg == safeSendMessage(page, suppressErrors, bgUp)
             IN IF suppressErrors /\ pg.lastCall # "answered"
                  THEN showReloadPageMessage(pg) ELSE pg
  /\ UNCHANGED <<observer, calc, popup, now, modelData, userPlan, bgUp, handlers, sweeps, roll,
                 sent, acks, onlyIncrements, last>>

\* performHealthCheck (the 60 s timer): skipped with a context known to be
\* invalid or with the reload message shown.
PerformHealthCheck ==
  /\ page' = IF ~page.extensionContextValid \/ page.reloadMessageShown
               THEN [page EXCEPT !.lastCall = "skipped"]
             ELSE LET pg == safeSendMessage(page, TRUE, bgUp)
                  IN IF pg.lastCall # "answered"
                       THEN showReloadPageMessage(pg) ELSE pg
  /\ UNCHANGED <<observer, calc, popup, now, modelData, userPlan, bgUp, handlers, sweeps, roll,
                 sent, acks, onlyIncrements, last>>

\* The reload message is closed, or removed after 30 s.
ReloadMessageHides ==
  /\ page.reloadMessageShown
  /\ page' = [page EXCEPT !.reloadMessageShown = FALSE]
  /\ UNCHANGED <<observer, calc, popup, now, modelData, userPlan, bgUp, handlers, sweeps, roll,
                 sent, acks, onlyIncrements, last>>

\* The popup's checkConnection on a ChatGPT tab: sendPingWithRetries(.., 3).
PopupOpens ==
  /\ popup.pc = "idle"
  /\ popup' = [pc |-> "ping", retriesLeft |-> 3, attempts |-> 0,
               status |-> "checking"]
  /\ UNCHANGED <<observer, calc, page, now, modelData, userPlan, bgUp, handlers, sweeps, roll,
                 sent, acks, onlyIncrements, last>>

\* One call of sendPingWithRetries; answered says whether the tab's content
\* script answers the ping with status success.
PopupPing(answered) ==
  /\ popup.pc = "ping"
  /\ popup' = IF popup.retriesLeft <= 0
                THEN [popup EXCEPT !.pc = "idle", !.status = "error"]
              ELSE IF answered
                THEN [popup EXCEPT !.pc = "idle", !.status = "success",
                                   !.attempts = @ + 1]
              ELSE [popup EXCEPT !.retriesLeft = @ - 1, !.attempts = @ + 1]
  /\ UNCHANGED <<observer, calc, page, now, modelData, userPlan, bgUp, handlers, sweeps, roll,
                 sent, acks, onlyIncrements, last>>

\* ------------------------------------ installation and rolling forward

RECURSIVE stepForward(_, _, _, _)
\* the while loop of updateFutureModelTimestamps
stepForward(nextPeriodStart, t, resetTime, limitObject) ==
  IF nextPeriodStart < t /\ nextPeriodStart < resetTime
    THEN stepForward(calculateNextTimestampAfterPeriod(nextPeriodStart, limitObject),
                     t, resetTime, limitObject)
    ELSE nextPeriodStart

\* A "Start" that is moved on by one hour, whatever the period.
nextPeriodStartOf_oneHour(modelInfo, limitObject, t) ==
  OrElse(modelInfo.lastResetTimestamp, t - 24) + 1

\* nextPeriodStart as the stepping loop of updateFutureModelTimestamps
\* leaves it, before the comparison with the stored "Until".
steppedStart(modelInfo, limitObject, t) ==
  stepForward(
    calculateNextTimestampAfterPeriod(OrElse(modelInfo.lastResetTimestamp, t - 24),
                                      limitObject),
    t, OrElse(modelInfo.nextResetTime, modelInfo.limitResetTime), limitObject)

\* A "Start" that stays where the stepping loop left it.
nextPeriodStartOf_stepped(modelInfo, limitObject, t) ==
  IF limitObject.periodUnit # "unlimited" /\ limitObject.periodUnit # "none"
    THEN steppedStart(modelInfo, limitObject, t)
    ELSE OrElse(modelInfo.lastResetTimestamp, t - 24)

\* The "Start" updateFutureModelTimestamps arrives at for one record with a
\* limit object; the record's own "Start" when it makes no change.
nextPeriodStartOf(modelInfo, limitObject, t) ==
  LET resetTime == OrElse(modelInfo.nextResetTime, modelInfo.limitResetTime)
      lastResetTimestamp == OrElse(modelInfo.lastResetTimestamp, t - 24)
  IN IF limitObject.periodUnit # "unlimited" /\ limitObject.periodUnit # "none"
     THEN LET n == stepForward(
                     calculateNextTimestampAfterPeriod(lastResetTimestamp, limitObject),
                     t, resetTime, limitObject)
          IN IF n >= resetTime /\ resetTime > lastResetTimestamp
               THEN lastResetTimestamp ELSE n
     ELSE lastResetTimestamp

\* An update that does not look at the record's "Until".
rollsForward_anyEnd(data, modelName, plan, t) ==
  LET modelInfo == data[modelName]
      limitObject == findLimitObjectForModel(modelName, toLowerCase(modelName),
                                             getModelLimits(plan))
      lastResetTimestamp == OrElse(modelInfo.lastResetTimestamp, t - 24)
  IN /\ HasLimit(limitObject)
     /\ nextPeriodStartOf(modelInfo, limitObject, t) > lastResetTimestamp
     /\ nextPeriodStartOf(modelInfo, limitObject, t) < t

\* Whether updateFutureModelTimestamps updates the record of modelName.
rollsForward(data, modelName, plan, t) ==
  LET modelInfo == data[modelName]
      resetTime == OrElse(modelInfo.nextResetTime, modelInfo.limitResetTime)
      limitObject == findLimitObjectForModel(modelName, toLowerCase(modelName),
                                             getModelLimits(plan))
      lastResetTimestamp == OrElse(modelInfo.lastResetTimestamp, t - 24)
  IN /\ Truthy(resetTime) /\ resetTime > t
     /\ HasLimit(limitObject)
     /\ nextPeriodStartOf(modelInfo, limitObject, t) > lastResetTimestamp
     /\ nextPeriodStartOf(modelInfo, limitObject, t) < t

\* The map updateFutureModelTimestamps holds after its loop over the models.
rolledData(data, plan, t) ==
  [k \in DOMAIN data |->
     IF rollsForward(data, k, plan, t)
     THEN LET limitObject == findLimitObjectForModel(k, toLowerCase(k),
                                                     getModelLimits(plan))
              newSince == nextPeriodStartOf(data[k], limitObject, t)
              newUntil == calculateNextTimestampAfterPeriod(newSince, limitObject)
          IN [data[k] EXCEPT !.lastResetTimestamp = newSince,
                             !.nextResetTime = newUntil,
                             !.limitResetTime = newUntil]
     ELSE data[k]]

updatesPerformed(data, plan, t) ==
  Cardinality({k \in DOMAIN data : rollsForward(data, k, plan, t)})

\* The records the loop of updateFutureModelTimestamps does not skip: a
\* future "Until" and a limit object.
examinedBy(data, plan, t) ==
  {k \in DOMAIN data :
     /\ Truthy(OrElse(data[k].nextResetTime, data[k].limitResetTime))
     /\ OrElse(data[k].nextResetTime, data[k].limitResetTime) > t
     /\ HasLimit(findLimitObjectForModel(k, toLowerCase(k), getModelLimits(plan)))}

\* chrome.runtime.onInstalled: the extension was installed or updated.
OnInstalled ==
  /\ roll.pc = "idle"
  /\ roll' = [IdleRoll EXCEPT !.pc = "installed", !.data = modelData]
  /\ sent' = sent + 1
  /\ onlyIncrements' = FALSE
  /\ UNCHANGED <<observer, calc, page, popup, now, modelData, userPlan, bgUp, handlers, sweeps, acks, last>>

\* The onInstalled listener with the map it read: an empty map is saved as
\* {}, any other starts updateFutureModelTimestamps.
InstalledInitializes ==
  /\ roll.pc = "installed"
  /\ IF DOMAIN roll.data = {}
       THEN /\ modelData' = EmptyData
            /\ roll' = IdleRoll
            /\ last' = [op |-> "initialize", model |-> NoName]
       ELSE /\ roll' = [roll EXCEPT !.pc = "ping", !.data = EmptyData]
            /\ UNCHANGED <<modelData, last>>
  /\ UNCHANGED <<observer, calc, page, popup, now, userPlan, bgUp, handlers, sweeps, sent, acks, onlyIncrements>>

\* updateFutureModelTimestamps: the ping and getModelData.
RollForwardReads ==
  /\ roll.pc = "ping"
  /\ roll' = IF bgUp THEN [roll EXCEPT !.pc = "plan", !.data = modelData]
             ELSE IdleRoll
  /\ UNCHANGED <<observer, calc, page, popup, now, modelData, userPlan, bgUp, handlers, sweeps, sent, acks,
                 onlyIncrements, last>>

\* updateFutureModelTimestamps: getUserPlan, the loop over the models and, if
\* it updated a record, saveModelDataDirectly with the map it holds.
RollForwardFinishes ==
  /\ roll.pc = "plan"
  /\ IF bgUp /\ updatesPerformed(roll.data, getUserPlanFromStorage, now) > 0
       THEN /\ modelData' = rolledData(roll.data, getUserPlanFromStorage, now)
            /\ last' = [op |-> "saveModelDataDirectly", model |-> NoName]
       ELSE UNCHANGED <<modelData, last>>
  /\ roll' = [IdleRoll EXCEPT
                !.examined =
                  IF bgUp THEN examinedBy(roll.data, getUserPlanFromStorage, now)
                  ELSE {},
                !.skipped =
                  IF bgUp
                    THEN DOMAIN roll.data
                           \ examinedBy(roll.data, getUserPlanFromStorage, now)
                    ELSE {}]
  /\ UNCHANGED <<observer, calc, page, popup, now, userPlan, bgUp, handlers, sweeps, sent, acks, onlyIncrements>>

\* ------------------------------------- period arithmetic on a limit object

\* The loop of updateFutureModelTimestamps reaches a record with an "Until"
\* after now and a limit object that is not unlimited/none: nextPeriodStart
\* is one period after "Start".
UpdateLoopEnters(modelInfo, limitObject) ==
  LET resetTime == OrElse(modelInfo.nextResetTime, modelInfo.limitResetTime) IN
  /\ calc.pc \in {"idle", "done"}
  /\ Truthy(resetTime) /\ resetTime > now
  /\ HasLimit(limitObject)
  /\ limitObject.periodUnit # "unlimited" /\ limitObject.periodUnit # "none"
  /\ calc' = [fn |-> "updateFutureModelTimestamps", pc |-> "stepping",
              modelInfo |-> modelInfo, limitObject |-> limitObject,
              value |-> calculateNextTimestampAfterPeriod(
                          OrElse(modelInfo.lastResetTimestamp, now - 24), limitObject)]
  /\ sent' = sent + 1
  /\ UNCHANGED <<observer, page, popup, now, modelData, userPlan, bgUp, handlers, sweeps,
                 roll, acks, onlyIncrements, last>>

\* while (nextPeriodStart < now && nextPeriodStart < resetTime): null compares
\* as 0.
loopContinues ==
  /\ calc.fn = "updateFutureModelTimestamps" /\ calc.pc = "stepping"
  /\ calc.value < now
  /\ calc.value < OrElse(calc.modelInfo.nextResetTime, calc.modelInfo.limitResetTime)

\* One pass of the while loop.
UpdateLoopSteps ==
  /\ loopContinues
  /\ calc' = [calc EXCEPT !.value =
                calculateNextTimestampAfterPeriod(calc.value, calc.limitObject)]
  /\ UNCHANGED <<observer, page, popup, now, modelData, userPlan, bgUp, handlers, sweeps,
                 roll, sent, acks, onlyIncrements, last>>

\* The loop is left: nextPeriodStart goes back to "Start" if it reached the
\* stored "Until", and the record is updated if the commit test passes.
UpdateLoopExits ==
  /\ calc.fn = "updateFutureModelTimestamps" /\ calc.pc = "stepping"
  /\ ~loopContinues
  /\ LET resetTime == OrElse(calc.modelInfo.nextResetTime, calc.modelInfo.limitResetTime)
         lastResetTimestamp == OrElse(calc.modelInfo.lastResetTimestamp, now - 24)
         nextPeriodStart ==
           IF calc.value >= resetTime /\ resetTime > lastResetTimestamp
             THEN lastResetTimestamp ELSE calc.value
         newUntil == calculateNextTimestampAfterPeriod(nextPeriodStart, calc.limitObject)
     IN calc' = [calc EXCEPT
                   !.pc = "done",
                   !.value = nextPeriodStart,
                   !.modelInfo =
                     IF nextPeriodStart > lastResetTimestamp /\ nextPeriodStart < now
                       THEN [@ EXCEPT !.lastResetTimestamp = nextPeriodStart,
                                      !.nextResetTime = newUntil,
                                      !.limitResetTime = newUntil]
                       ELSE @]
  /\ UNCHANGED <<observer, page, popup, now, modelData, userPlan, bgUp, handlers, sweeps,
                 roll, sent, acks, onlyIncrements, last>>

\* checkAndResetExpiredModels computes the new "Until" of an expired record
\* from its limit object; the reset it sends writes count 0, "Start" now and
\* that "Until".
ExpiryResetComputes(modelInfo, limitObject) ==
  /\ calc.pc \in {"idle", "done"}
  /\ isExpired(modelInfo, now)
  /\ calc' = [fn |-> "checkAndResetExpiredModels", pc |-> "done",
              modelInfo |-> Rec(0, now, sweepUntilOf(now, limitObject),
                                sweepUntilOf(now, limitObject)),
              limitObject |-> limitObject,
              value |-> sweepUntilOf(now, limitObject)]
  /\ sent' = sent + 1
  /\ UNCHANGED <<observer, page, popup, now, modelData, userPlan, bgUp, handlers, sweeps,
                 roll, acks, onlyIncrements, last>>

\* handleModelConfigUpdate with the limit object it found: count and "Until"
\* from the message, "Start" from its switch.
OverrideComputes(modelInfo, limitObject, count, untilTimestamp) ==
  /\ calc.pc \in {"idle", "done"}
  /\ LET start == IF HasLimit(limitObject) /\ limitObject.periodUnit # "unlimited"
                     /\ limitObject.periodUnit # "none"
                    THEN sinceDateOf(untilTimestamp, limitObject)
                    ELSE modelInfo.lastResetTimestamp
     IN calc' = [fn |-> "handleModelConfigUpdate", pc |-> "done",
                 modelInfo |-> Rec(count, start, untilTimestamp, untilTimestamp),
                 limitObject |-> limitObject, value |-> start]
  /\ sent' = sent + 1
  /\ UNCHANGED <<observer, page, popup, now, modelData, userPlan, bgUp, handlers, sweeps,
                 roll, acks, onlyIncrements, last>>

\* ------------------------------------------------- the PerformanceObserver

\* A second passes on the page.
ObserverClockTicks ==
  /\ observer.clock < PageOpened + MaxSeconds
  /\ observer' = [observer EXCEPT !.clock = @ + 1]
  /\ UNCHANGED <<calc, page, popup, now, modelData, userPlan, bgUp, handlers, sweeps,
                 roll, sent, acks, onlyIncrements, last>>

\* The observer's callback sees a request to the conversation endpoint:
\* setTimeout(checkForCompletion, 1000).
ConversationCallDetected(c) ==
  /\ observer.checks[c].pc = "none"
  /\ \A b \in 1..(c - 1) : observer.checks[b].pc # "none"
  /\ observer' = [observer EXCEPT !.checks[c] =
                    [pc |-> "waiting", due |-> observer.clock + 1, waitCount |-> 0]]
  /\ UNCHANGED <<calc, page, popup, now, modelData, userPlan, bgUp, handlers, sweeps,
                 roll, sent, acks, onlyIncrements, last>>

\* Math.max(...recentIncrements), 0 for none
mostRecentIncrement(ids) ==
  IF ids = {} THEN 0 ELSE CHOOSE x \in ids : \A y \in ids : y <= x

\* Every check sends.
sendsIncrement_always(model, clock, ids) == model # NoName

\* Whether checkForCompletion calls incrementCounterInBackground.
sendsIncrement(model, clock, ids) ==
  /\ model # NoName
  /\ clock - mostRecentIncrement(ids) > ThrottleSeconds

\* checkForCompletion, when its timer fires: detected is the model
\* detectCurrentModel finds in the page (NoName: none). With a model it sends
\* the increment unless one was sent in the last 5 seconds; without one it
\* sets the timer again, up to 10 times. The increment goes through
\* safeSendMessage to the background's incrementModelCount handler.
CheckForCompletion(c, detected) ==
  LET check == observer.checks[c]
      model == IF detected # NoName THEN detected ELSE observer.currentModel
      sends == sendsIncrement(model, observer.clock, observer.processedMessageIds)
  IN
  /\ check.pc = "waiting"
  /\ check.due <= observer.clock
  /\ sends /\ bgUp => \E h \in HandlerIds : FreeHandler(h)
  /\ observer' =
       [observer EXCEPT
          !.currentModel = model,
          !.processedMessageIds = IF sends THEN @ \cup {observer.clock} ELSE @,
          !.sentAt = IF sends THEN Append(@, observer.clock) ELSE @,
          !.checks[c] =
            IF model # NoName \/ check.waitCount + 1 >= MaxWaitCount
              THEN [pc |-> "done", due |-> 0, waitCount |-> check.waitCount + 1]
              ELSE [pc |-> "waiting", due |-> observer.clock + 1,
                    waitCount |-> check.waitCount + 1]]
  /\ IF sends
       THEN /\ page' = safeSendMessage(page, TRUE, bgUp)
            /\ IF bgUp
                 THEN /\ \E h \in HandlerIds :
                           /\ FreeHandler(h)
                           /\ Spawn(h, [IdleHandler EXCEPT !.pc = "data",
                                          !.action = "incrementModelCount",
                                          !.model = model, !.data = modelData])
                      /\ sent' = sent + 1
                 ELSE UNCHANGED <<handlers, sent>>
       ELSE UNCHANGED <<page, handlers, sent>>
  /\ UNCHANGED <<calc, popup, now, modelData, userPlan, bgUp, sweeps, roll, acks,
                 onlyIncrements, last>>

\* ------------------------------------------------------- the specification

Banners ==
  {Banner(m, r, Null, u) : m \in Models, r \in BOOLEAN, u \in StatedTimes(now)}

Next ==
  \/ Tick
  \/ sent < MaxMsgs /\ BackgroundStops
  \/ BackgroundStarts
  \/ \E m \in Models : sent < MaxMsgs /\ ReceiveIncrement(m)
  \/ \E h \in HandlerIds : FinishIncrement(h)
  \/ sent < MaxMsgs /\ ReceiveResetAll
  \/ \E h \in HandlerIds : FinishResetAll(h)
  \/ \E p \in Plans : sent < MaxMsgs /\ SetUserPlan(p)
  \/ \E b \in Banners : sent < MaxMsgs /\ ReceiveRateLimitHit(b)
  \/ \E h \in HandlerIds : RateLimitHitReadsPlan(h)
  \/ \E h \in HandlerIds : FinishRateLimitHit(h)
  \/ \E m \in Models : sent < MaxMsgs /\ ReceivePopupReset(m)
  \/ \E m \in Models : sent < MaxMsgs /\ ReceivePanelReset(m)
  \/ \E h \in HandlerIds : FinishSingleReset(h)
  \/ \E h \in HandlerIds : SingleResetReadsPlan(h)
  \/ \E h \in HandlerIds : FinishSingleResetCalculated(h)
  \/ \E m \in Models, c \in 0..MaxCount, u \in UntilChoices(now) :
       sent < MaxMsgs /\ ReceiveModelConfig(m, c, u)
  \/ \E h \in HandlerIds : FinishModelConfig(h)
  \/ \E s \in SweepIds : SweepStart(s)
  \/ \E s \in SweepIds : SweepPing(s)
  \/ \E s \in SweepIds : SweepGetData(s)
  \/ \E s \in SweepIds : SweepGetPlan(s)
  \/ \E s \in SweepIds, m \in Models : SweepSendReset(s, m)
  \/ sent < MaxMsgs /\ OnInstalled
  \/ InstalledInitializes
  \/ RollForwardReads
  \/ RollForwardFinishes

Spec == Init /\ [][Next]_vars

\* A page with the content script stays open and the background answers
\* every message.  The pages count requests and the user overrides records
\* with an "Until" that has passed; the page's timers start sweep after
\* sweep, and every await of a sweep or of a handler returns.  All of it
\* happens within the hour of StartTime.
HandlerStep(h) ==
  \/ FinishIncrement(h)
  \/ FinishModelConfig(h)
  \/ FinishSingleReset(h)
  \/ SingleResetReadsPlan(h)
  \/ FinishSingleResetCalculated(h)

SweepStep(s) ==
  \/ SweepStart(s)
  \/ SweepGetData(s)
  \/ SweepGetPlan(s)
  \/ \E m \in Models : SweepSendReset(s, m)

NextLive ==
  \/ \E m \in Models : sent < MaxLiveMsgs /\ ReceiveIncrement(m)
  \/ \E m \in Models :
       sent < MaxLiveMsgs /\ ReceiveModelConfig(m, MaxCount, now - 1)
  \/ \E h \in HandlerIds : HandlerStep(h)
  \/ \E s \in SweepIds : SweepStep(s)

SpecLive ==
  /\ Init
  /\ [][NextLive]_vars
  /\ \A h \in HandlerIds : WF_vars(HandlerStep(h))
  /\ \A s \in SweepIds : WF_vars(SweepStep(s))

\* The extension is installed or updated over a store that pages and the
\* user have written: requests are counted, the user overrides records with
\* an "Until" an hour ahead, and onInstalled runs
\* updateFutureModelTimestamps, more than once within the same hour.
MaxRollMsgs == 4

NextRoll ==
  \/ Tick
  \/ \E m \in Models : sent < MaxRollMsgs /\ ReceiveIncrement(m)
  \/ \E h \in HandlerIds : FinishIncrement(h)
  \/ \E m \in Models :
       sent < MaxRollMsgs /\ ReceiveModelConfig(m, MaxCount, now + 1)
  \/ \E h \in HandlerIds : FinishModelConfig(h)
  \/ sent < MaxRollMsgs /\ OnInstalled
  \/ InstalledInitializes
  \/ RollForwardReads
  \/ RollForwardFinishes

SpecRoll == Init /\ [][NextRoll]_vars

\* Pages show models getModelLimits does not know: their requests are
\* counted and their banners reported.
\* The day a warning banner names in "until it resets <Month> <Day>, <Year>"
\* at time t, as new Date() reads it: 00:00 of the ninth day after today.
ResetDates(t) == {((t \div 24) + 9) * 24}

UnknownBanners ==
  {Banner(m, r, Null, u) : m \in UnknownModels, r \in BOOLEAN, u \in StatedTimes(now)}
    \cup {Banner(N_o3, TRUE, d, Null) : d \in ResetDates(now)}

NextUnknown ==
  \/ Tick
  \/ \E m \in UnknownModels : sent < MaxMsgs /\ ReceiveIncrement(m)
  \/ \E h \in HandlerIds : FinishIncrement(h)
  \/ \E p \in Plans : sent < MaxMsgs /\ SetUserPlan(p)
  \/ \E b \in UnknownBanners : sent < MaxMsgs /\ ReceiveRateLimitHit(b)
  \/ \E h \in HandlerIds : RateLimitHitReadsPlan(h)
  \/ \E h \in HandlerIds : FinishRateLimitHit(h)

SpecUnknown == Init /\ [][NextUnknown]_vars

\* chrome.storage.local fails now and then while the pages count requests.
NextFaulty ==
  \/ Tick
  \/ \E m \in Models : sent < MaxMsgs /\ ReceiveIncrement(m)
  \/ \E m \in Models : sent < MaxMsgs /\ ReceiveIncrementReadFails(m)
  \/ \E h \in HandlerIds : FinishIncrement(h)
  \/ \E h \in HandlerIds : FinishIncrementWriteFails(h)

SpecFaulty == Init /\ [][NextFaulty]_vars

\* Pages and the popup send messages the background answers with status
\* error, among messages it accepts: messages with a field missing, a plan
\* that is neither FREE nor PLUS, an override whose handler finds no record.
MaxErrorMsgs == 3

PlanInputs == Plans \cup {"PRO"}

NextErrors ==
  \/ Tick
  \/ \E m \in Models : sent < MaxErrorMsgs /\ ReceiveIncrement(m)
  \/ \E h \in HandlerIds : FinishIncrement(h)
  \/ \E p \in PlanInputs : sent < MaxErrorMsgs /\ SetUserPlan(p)
  \/ \E m \in Models :
       sent < MaxErrorMsgs /\ ReceiveModelConfig(m, MaxCount, now + 1)
  \/ \E m \in Models :
       sent < MaxErrorMsgs /\ ReceiveModelConfigReadFails(m, MaxCount, now + 1)
  \/ \E h \in HandlerIds : FinishModelConfig(h)
  \/ \E message \in MalformedMessages :
       sent < MaxErrorMsgs /\ ReceiveMalformed(message)

SpecErrors == Init /\ [][NextErrors]_vars

\* A page shows limit-hit banners for gpt-4o that state a clock time, at
\* every full hour of the twelve-hour clock.
ClockHours == 1..12

ClockBanners ==
  {Banner(N_gpt4o, FALSE, Null, parseAbsoluteTime(H, ampm, now)) :
     H \in ClockHours, ampm \in {"AM", "PM"}}

NextClock ==
  \/ Tick
  \/ \E b \in ClockBanners : sent < MaxMsgs /\ ReceiveRateLimitHit(b)
  \/ \E h \in HandlerIds : RateLimitHitReadsPlan(h)
  \/ \E h \in HandlerIds : FinishRateLimitHit(h)

SpecClock == Init /\ [][NextClock]_vars

\* A page shows limit-hit banners for gpt-4o with a relative duration:
\* "in N hours and M minutes", "in N hours", "in M minutes".  The reset
\* instant of a banner goes into the rateLimitHit message when it is a full
\* hour.
RelativePhrases ==
  {Phrase(N, M) : N \in {1, 3}, M \in {30, 120}}
    \cup {Phrase(N, Null) : N \in {1, 3}}
    \cup {Phrase(Null, M) : M \in {30, 120}}

RelativeBanners ==
  {Banner(N_gpt4o, FALSE, Null,
          parseRelativeTime(p, now * MinutesPerHour) \div MinutesPerHour) :
     p \in {q \in RelativePhrases :
              parseRelativeTime(q, now * MinutesPerHour) % MinutesPerHour = 0}}

NextRelative ==
  \/ Tick
  \/ \E b \in RelativeBanners : sent < MaxMsgs /\ ReceiveRateLimitHit(b)
  \/ \E h \in HandlerIds : RateLimitHitReadsPlan(h)
  \/ \E h \in HandlerIds : FinishRateLimitHit(h)

SpecRelative == Init /\ [][NextRelative]_vars

\* Pages show model names in several spellings; their requests are counted
\* and the user resets records with the panel's reset button, which looks
\* the model up in the content script's table.
MaxMatcherMsgs == 3

NextMatcher ==
  \/ Tick
  \/ \E m \in MatcherModels : sent < MaxMatcherMsgs /\ ReceiveIncrement(m)
  \/ \E h \in HandlerIds : FinishIncrement(h)
  \/ \E p \in Plans : sent < MaxMatcherMsgs /\ SetUserPlan(p)
  \/ \E m \in MatcherModels : sent < MaxMatcherMsgs /\ ReceivePanelReset(m)
  \/ \E h \in HandlerIds : FinishSingleReset(h)
  \/ \E h \in HandlerIds : SingleResetReadsPlan(h)
  \/ \E h \in HandlerIds : FinishSingleResetCalculated(h)

SpecMatcher == Init /\ [][NextMatcher]_vars

\* The background stops answering and answers again while a page's timers
\* start expiry sweeps over records whose "Until" has passed, and while the
\* popup checks its connection to the tab.
MaxRetryMsgs == 3

RetryModels == {N_gpt4o, N_gpt4omini}

NextRetry ==
  \/ sent < MaxRetryMsgs /\ BackgroundStops
  \/ BackgroundStarts
  \/ \E m \in RetryModels : sent < MaxRetryMsgs /\ ReceiveIncrement(m)
  \/ \E h \in HandlerIds : FinishIncrement(h)
  \/ \E m \in RetryModels :
       sent < MaxRetryMsgs /\ ReceiveModelConfig(m, MaxCount, now - 1)
  \/ \E h \in HandlerIds : FinishModelConfig(h)
  \/ \E s \in SweepIds : SweepStart(s)
  \/ \E s \in SweepIds : SweepPing(s)
  \/ \E s \in SweepIds : SweepGetData(s)
  \/ \E s \in SweepIds : SweepGetPlan(s)
  \/ \E s \in SweepIds, m \in RetryModels : SweepSendReset(s, m)
  \/ \E h \in HandlerIds : FinishSingleReset(h)
  \/ \E h \in HandlerIds : SingleResetReadsPlan(h)
  \/ \E h \in HandlerIds : FinishSingleResetCalculated(h)
  \/ PopupOpens
  \/ \E answered \in BOOLEAN : PopupPing(answered)

SpecRetry == Init /\ [][NextRetry]_vars

\* The background stops answering and answers again while the content
\* script of a page pings it, checks its health and starts expiry sweeps.
NextPage ==
  \/ Tick
  \/ sent < MaxMsgs /\ BackgroundStops
  \/ BackgroundStarts
  \/ \E suppressErrors \in BOOLEAN : SafeSend(suppressErrors)
  \/ PerformHealthCheck
  \/ ReloadMessageHides
  \/ \E s \in SweepIds : SweepStart(s)
  \/ \E s \in SweepIds : SweepPing(s)
  \/ \E s \in SweepIds : SweepGetData(s)

SpecPage == Init /\ [][NextPage]_vars

\* A page on which conversation requests are seen by the PerformanceObserver
\* while the service worker stops and starts.
ObservedModels == {N_gpt4o}

NextObserver ==
  \/ ObserverClockTicks
  \/ \E c \in CallIds : ConversationCallDetected(c)
  \/ \E c \in CallIds : \E detected \in {NoName} \cup ObservedModels :
       CheckForCompletion(c, detected)
  \/ \E h \in HandlerIds : FinishIncrement(h)

SpecObserver == Init /\ [][NextObserver]_vars

\* The extension is installed while a page already counts: the onInstalled
\* listener, which read an empty map, saves {} over the records written
\* since, and the popup overrides a record its map still shows.
MaxStaleMsgs == 3

NextStale ==
  \/ \E m \in Models : sent < MaxStaleMsgs /\ ReceiveIncrement(m)
  \/ \E h \in HandlerIds : FinishIncrement(h)
  \/ sent < MaxStaleMsgs /\ OnInstalled
  \/ InstalledInitializes
  \/ RollForwardReads
  \/ RollForwardFinishes
  \/ \E m \in Models : \E u \in UntilChoices(now) :
       sent < MaxStaleMsgs /\ ReceiveModelConfig(m, MaxCount, u)
  \/ \E m \in Models : \E u \in UntilChoices(now) :
       sent < MaxStaleMsgs /\ ReceiveModelConfigStale(m, MaxCount, u)
  \/ \E h \in HandlerIds : FinishModelConfig(h)

SpecStale == Init /\ [][NextStale]_vars

\* The panel's plan labels set the plan and the panel asks for it, with
\* values other than FREE and PLUS and with storage calls that throw, while
\* the service worker stops and starts.
MaxPlanMsgs == 4

NextPlan ==
  \/ Tick
  \/ sent < MaxPlanMsgs /\ BackgroundStops
  \/ BackgroundStarts
  \/ \E p \in Plans : sent < MaxPlanMsgs /\ SetUserPlanWriteFails(p)
  \/ \E p \in PlanInputs : sent < MaxPlanMsgs /\ SetUserPlan(p)
  \/ \E readFails \in BOOLEAN : sent < MaxPlanMsgs /\ GetUserPlan(readFails)

SpecPlan == Init /\ [][NextPlan]_vars

\* ------------------------------------------------------------- properties

StoredCount(d, m) == IF Has(d, m) THEN d[m].count ELSE 0

\* windowEnd of a record: nextResetTime, absent unless it is a number
HasWindowEnd(r) == IsNumber(r.nextResetTime)

Bounded(limitObject) ==
  /\ HasLimit(limitObject)
  /\ limitObject.periodUnit \notin {"unlimited", "none"}

\* A reset the expiry sweep asked for is applied by handler h.
ExpiryResetApplied(h) ==
  /\ handlers[h].sweep # 0
  /\ FinishSingleReset(h) \/ FinishSingleResetCalculated(h)

\* C1: no acknowledged increment is lost.  As long as the only mutating
\* messages were incrementModelCount, each model's stored count is the number
\* of incrementModelCount messages for it that were answered with success.
C1_NoLostIncrement ==
  onlyIncrements => \A m \in Models : StoredCount(modelData, m) = acks[m]

\* C2: when the rateLimitHit of a limit-hit banner that stated the reset
\* instant U and was seen at t is processed, the model's record has count 0,
\* nextResetTime U and lastResetTimestamp t.
C2_LimitHitWindow ==
  [][\A h \in HandlerIds :
       (FinishRateLimitHit(h) /\ ~handlers[h].warning /\ Truthy(handlers[h].stated))
       => LET r == modelData'[handlers[h].model]
          IN /\ r.count = 0
             /\ r.nextResetTime = handlers[h].stated
             /\ r.lastResetTimestamp = handlers[h].sentAt]_vars

\* C3: processing the rateLimitHit of a warning banner (remaining/left)
\* leaves the model's count as the handler read it; a banner zeroes a count
\* only when it is a limit-hit banner.
C3_WarningKeepsCount ==
  [][\A h \in HandlerIds :
       (FinishRateLimitHit(h) /\ handlers[h].warning)
       => StoredCount(modelData', handlers[h].model)
            = StoredCount(handlers[h].data, handlers[h].model)]_vars

\* C4: the expiry sweep that runs at nowTimestamp resets exactly the records
\* it read with a windowEnd before nowTimestamp (strictly), and a record it
\* resets becomes count 0, windowStart nowTimestamp and windowEnd one period
\* of its descriptor after nowTimestamp (none for a descriptor without a
\* period).
C4_ExpirySweep ==
  [][/\ \A s \in SweepIds :
          SweepGetData(s) =>
            \A m \in Models :
              m \in sweeps'[s].modelsToReset
                <=> /\ bgUp /\ Has(modelData, m) /\ HasWindowEnd(modelData[m])
                    /\ sweeps[s].nowTimestamp > modelData[m].nextResetTime
     /\ \A h \in HandlerIds :
          ExpiryResetApplied(h) =>
            LET s == handlers[h].sweep
                m == handlers[h].model
                t == sweeps[s].nowTimestamp
                descriptor == findLimitObjectForModel(m, toLowerCase(m),
                                                      sweepModelLimits(sweeps[s].plan))
                r == modelData'[m]
            IN /\ r.count = 0
               /\ r.lastResetTimestamp = t
               /\ IF Bounded(descriptor)
                    THEN r.nextResetTime =
                           calculateNextTimestampAfterPeriod(t, descriptor)
                    ELSE ~HasWindowEnd(r)]_vars

\* C5: a reset of the expiry sweep is applied only to a record whose stored
\* windowEnd is in the past when the background applies it.
C5_ResetOnlyIfStillExpired ==
  [][\A h \in HandlerIds :
       ExpiryResetApplied(h)
       => /\ Has(modelData, handlers[h].model)
          /\ HasWindowEnd(modelData[handlers[h].model])
          /\ modelData[handlers[h].model].nextResetTime < now]_vars

\* The instants of a windowEnd that has passed at StartTime.
PassedEnds == {StartTime - 1}

\* C6: with a page open and the background answering, a record whose
\* windowEnd has passed eventually has count 0 and a windowStart after that
\* windowEnd.
C6_EventuallyReset ==
  \A m \in Models : \A e \in PassedEnds :
    (Has(modelData, m) /\ modelData[m].nextResetTime = e /\ now > e)
      ~> (Has(modelData, m) /\ modelData[m].count = 0
          /\ modelData[m].lastResetTimestamp > e)

\* C7: updateModelConfig with count c and untilTimestamp U on a record the
\* handler read sets count to c and windowEnd to U; with a bounded descriptor
\* windowStart becomes the instant one period before U, otherwise it stays.
C7_ManualOverride ==
  [][\A h \in HandlerIds :
       (FinishModelConfig(h) /\ Has(handlers[h].data, handlers[h].model))
       => LET m == handlers[h].model
              descriptor == findLimitObjectForModel(m, toLowerCase(m),
                                                    getModelLimits(handlers[h].plan))
              r == modelData'[m]
          IN /\ r.count = handlers[h].count
             /\ r.nextResetTime = handlers[h].until
             /\ IF Bounded(descriptor)
                  THEN /\ r.lastResetTimestamp < handlers[h].until
                       /\ calculateNextTimestampAfterPeriod(r.lastResetTimestamp,
                                                            descriptor)
                            = handlers[h].until
                  ELSE r.lastResetTimestamp
                         = handlers[h].data[m].lastResetTimestamp]_vars

\* A manual override of a model with a bounded descriptor (gpt-4o, 3 hours)
\* was the last write.
C7_Witness ==
  /\ last = [op |-> "updateModelConfig", model |-> N_gpt4o]
  /\ modelData[N_gpt4o].count = MaxCount
  /\ modelData[N_gpt4o].lastResetTimestamp = modelData[N_gpt4o].nextResetTime - 3

\* C8: every stored record with a windowEnd has it after its windowStart.
C8_WindowOrdered ==
  \A m \in DOMAIN modelData :
    HasWindowEnd(modelData[m])
      => modelData[m].nextResetTime > modelData[m].lastResetTimestamp

\* C9: a model's key, once in the stored map, stays in it.
C9_KeysPersist ==
  [][\A m \in Models : Has(modelData, m) => Has(modelData', m)]_vars

\* C10: no two expiry sweeps are in flight for the same model at one time.
C10_NoOverlappingSweeps ==
  \A s1, s2 \in SweepIds :
    s1 # s2 => sweeps[s1].modelsToReset \cap sweeps[s2].modelsToReset = {}

\* A limit object that names no period: periodUnit 'unlimited' or 'none'.
Unlimited(limitObject) ==
  HasLimit(limitObject) /\ limitObject.periodUnit \in {"unlimited", "none"}

\* C11: the record of a model whose descriptor is unlimited or none is
\* changed neither by a reset of the expiry sweep (descriptor of the sweep's
\* table, for the plan the sweep read) nor by updateFutureModelTimestamps
\* (descriptor of getModelLimits).
C11_UnlimitedUntouched ==
  [][/\ \A h \in HandlerIds :
          ExpiryResetApplied(h) =>
            LET s == handlers[h].sweep
                m == handlers[h].model
                descriptor == findLimitObjectForModel(m, toLowerCase(m),
                                                      sweepModelLimits(sweeps[s].plan))
            IN (Unlimited(descriptor) /\ Has(modelData, m))
                 => modelData'[m] = modelData[m]
     /\ RollForwardFinishes =>
          \A m \in DOMAIN modelData :
            Unlimited(findLimitObjectForModel(m, toLowerCase(m),
                                              getModelLimits(getUserPlanFromStorage)))
              => (Has(modelData', m) /\ modelData'[m] = modelData[m])]_vars

\* C12: updateFutureModelTimestamps run again at once on the map a run has
\* left in the store, at the same instant and with the same plan, performs
\* 0 updates and yields that same map.
C12_RollForwardIdempotent ==
  [][RollForwardFinishes =>
       /\ updatesPerformed(modelData', getUserPlanFromStorage, now) = 0
       /\ rolledData(modelData', getUserPlanFromStorage, now) = modelData']_vars

\* A run of updateFutureModelTimestamps has finished that took the record
\* of gpt-4o-mini (1 day, through 'gpt-4'), with an "Until" ahead, through
\* its period arithmetic, and nothing has touched the store since.
C12_Witness ==
  /\ roll.pc = "idle"
  /\ N_gpt4omini \in roll.examined
  /\ Has(modelData, N_gpt4omini)
  /\ modelData[N_gpt4omini].nextResetTime > now
  /\ modelData[N_gpt4omini].lastResetTimestamp < now - 2
  /\ \A h \in HandlerIds : handlers[h].pc = "idle"

\* C14: resetAllCounters, with no other write between its read and its
\* write, leaves the stored map with the keys it had, and every record with
\* count 0, windowStart the instant of the reset and windowEnd one period of
\* the model's descriptor later, none for a descriptor without a period.
C14_ResetAllRecomputes ==
  [][\A h \in HandlerIds :
       (FinishResetAll(h) /\ handlers[h].data = modelData) =>
         /\ DOMAIN modelData' = DOMAIN modelData
         /\ \A m \in DOMAIN modelData' :
              LET descriptor == findLimitObjectForModel(m, toLowerCase(m),
                                  getModelLimits(getUserPlanFromStorage))
                  r == modelData'[m]
              IN /\ r.count = 0
                 /\ r.lastResetTimestamp = now
                 /\ IF Bounded(descriptor)
                      THEN r.nextResetTime =
                             calculateNextTimestampAfterPeriod(now, descriptor)
                      ELSE ~HasWindowEnd(r)]_vars

\* C15: the record of a model that no entry of the limit table matches, for
\* either plan, has neither a windowStart nor a windowEnd.
C15_UnknownModelRawCount ==
  \A m \in DOMAIN modelData :
    (\A p \in Plans :
       ~HasLimit(findLimitObjectForModel(m, toLowerCase(m), getModelLimits(p))))
    => /\ ~IsNumber(modelData[m].lastResetTimestamp)
       /\ ~HasWindowEnd(modelData[m])

\* C16: handling an incrementModelCount whose storage read or storage write
\* fails leaves every other model's stored record as it was, and a failed
\* write leaves the whole stored map as it was.
C16_StorageFailureKeepsRecords ==
  [][\A h \in HandlerIds :
       /\ (FinishIncrement(h) /\ handlers[h].readFailed) =>
            \A k \in DOMAIN modelData :
              k # handlers[h].model
                => (Has(modelData', k) /\ modelData'[k] = modelData[k])
       /\ FinishIncrementWriteFails(h) => modelData' = modelData]_vars

\* C17: a step in which the background answers a message with status error
\* (a message without a branch or with a field missing, setUserPlan with a
\* value other than FREE and PLUS, updateModelConfig that finds no record)
\* changes neither the stored map nor the stored plan.
C17_ErrorLeavesState ==
  [][(\/ \E message \in MalformedMessages : ReceiveMalformed(message)
      \/ \E p \in PlanInputs \ {"FREE", "PLUS"} : SetUserPlan(p)
      \/ \E h \in HandlerIds :
           FinishModelConfig(h) /\ ~Has(handlers[h].data, handlers[h].model))
     => (modelData' = modelData /\ userPlan' = userPlan)]_vars

\* The last message was answered with status error while the store held a
\* record and the plan PLUS.
C17_Witness ==
  /\ last.op = "error"
  /\ Has(modelData, N_gpt4o)
  /\ modelData[N_gpt4o].count = 1
  /\ userPlan = "PLUS"

C19_WeeklyResetDate ==
  [][\A h \in HandlerIds :
       LET m == handlers[h].model
           D == handlers[h].resetsDate
           descriptor == findLimitObjectForModel(m, toLowerCase(m),
                                                 sweepModelLimits(handlers[h].plan))
       IN (/\ FinishRateLimitHit(h)
           /\ D # Null
           /\ HasLimit(descriptor) /\ descriptor.periodUnit = "week")
          => /\ modelData'[m].nextResetTime >= D + 23
             /\ modelData'[m].nextResetTime <= D + 24
             /\ modelData'[m].lastResetTimestamp
                  = AddDays(D, 0 - 7 * descriptor.periodAmount)]_vars

\* C20: a clock time "H:00 AM/PM" parsed now is that clock time today when
\* it is not before now and that clock time tomorrow otherwise; the instant
\* is never before now and less than 24 hours after now.
C20_ClockTimeTodayOrTomorrow ==
  \A H \in ClockHours : \A ampm \in {"AM", "PM"} :
    LET today == DayStart(now) + hours24(H, ampm)
        r == parseAbsoluteTime(H, ampm, now)
    IN /\ r >= now
       /\ r < now + 24
       /\ r = IF today >= now THEN today ELSE today + 24

\* A banner that states a clock time already passed today ("3:00 AM", seen
\* after 04:00) was processed: the record's "Start" is 03:00 of tomorrow.
C20_Witness ==
  /\ Has(modelData, N_gpt4o)
  /\ last = [op |-> "rateLimitHit", model |-> N_gpt4o]
  /\ modelData[N_gpt4o].lastResetTimestamp = DayStart(now) + 24 + 3
  /\ now > DayStart(now) + 3

\* The duration a relative phrase states, in minutes.
durationOf(phrase) ==
  (IF phrase.hours # Null THEN phrase.hours * MinutesPerHour ELSE 0)
    + (IF phrase.minutes # Null THEN phrase.minutes ELSE 0)

\* C21: a relative-duration phrase parsed at T yields T + duration exactly:
\* N hours plus M minutes for "N hours and M minutes", N hours for
\* "N hours", M minutes for "M minutes"; by parseRateLimitBanner and by
\* parseWarningTimestamps (for gpt-4o on either plan).
C21_RelativeDuration ==
  \A p \in RelativePhrases :
    LET T == now * MinutesPerHour IN
    /\ parseRelativeTime(p, T) = T + durationOf(p)
    /\ \A plan \in Plans :
         parseWarningTimestamps(p, T,
           findLimitObjectForModel(N_gpt4o, N_gpt4o, getModelLimits(plan)))
           = T + durationOf(p)

\* C22: a rateLimitHit for a banner whose text states no reset time is sent
\* only when the model's descriptor is bounded, and then the reset instant
\* it carries is one period of the descriptor after now.
C22_NoPatternFallback ==
  [][\A b \in Banners :
       (ReceiveRateLimitHit(b) /\ b.stated = Null /\ b.resetsDate = Null)
       => LET descriptor ==
                findLimitObjectForModel(b.modelSlug, toLowerCase(b.modelSlug),
                                        getModelLimits(getUserPlanFromStorage))
          IN /\ Bounded(descriptor)
             /\ rateLimitMessage(b, now).newSinceTimestampFromBanner
                  = calculateNextTimestampAfterPeriod(now, descriptor)]_vars

\* The keys of a limit table, in declared order.
KeysOf(modelLimits) == [i \in 1..Len(modelLimits) |-> modelLimits[i][1]]

\* Key i of the table contains the lower-cased name or is contained in it.
Candidate(modelLimits, i, lowered) ==
  \/ includes(lowered, toLowerCase(modelLimits[i][1]))
  \/ includes(toLowerCase(modelLimits[i][1]), lowered)

\* C23: for every stored model name and both tables of either plan, the
\* matcher returns the entry of the key that equals the name; without one,
\* the entry of the key that equals the lower-cased name; without one, the
\* entry of the first key in declared order that contains the lower-cased
\* name or is contained in it; and no limit object when there is none.
C23_MatcherPriority ==
  \A m \in DOMAIN modelData : \A p \in Plans :
    \A modelLimits \in {getModelLimits(p), sweepModelLimits(p)} :
      LET keys == KeysOf(modelLimits)
          lowered == toLowerCase(m)
          exact == {i \in DOMAIN keys : keys[i] = m}
          lower == {i \in DOMAIN keys : keys[i] = lowered}
          partial == {i \in DOMAIN keys : Candidate(modelLimits, i, lowered)}
          found == findLimitObjectForModel(m, lowered, modelLimits)
      IN /\ exact # {} => \E i \in exact : found = modelLimits[i][2]
         /\ (exact = {} /\ lower # {}) => \E i \in lower : found = modelLimits[i][2]
         /\ (exact = {} /\ lower = {} /\ partial # {})
              => \E i \in partial :
                   /\ \A j \in partial : i <= j
                   /\ found = modelLimits[i][2]
         /\ (exact = {} /\ lower = {} /\ partial = {}) => ~HasLimit(found)

\* The store holds 'GPT-4o' (found through its lower-cased name), reset by
\* the panel to a window of the 3 hours of 'gpt-4o', beside 'gpt-4o-mini'
\* (an exact key of the sweep's FREE table, a partial match through 'gpt-4'
\* in getModelLimits).
C23_Witness ==
  /\ Has(modelData, N_GPT4o)
  /\ Has(modelData, N_gpt4omini)
  /\ last = [op |-> "resetSingleModelCounter", model |-> N_GPT4o]
  /\ modelData[N_GPT4o].nextResetTime = modelData[N_GPT4o].lastResetTimestamp + 3

\* C24: getModelLimits and the sweep's table are the plan's table for FREE
\* and for PLUS; for any other plan value they are empty, and no model
\* resolves to a limit object.
C24_LimitsForPlan ==
  \A p \in PlanInputs :
    IF p \in {"FREE", "PLUS"}
      THEN /\ Len(getModelLimits(p)) > 0
           /\ Len(sweepModelLimits(p)) > 0
      ELSE /\ Len(getModelLimits(p)) = 0
           /\ Len(sweepModelLimits(p)) = 0
           /\ \A m \in Models \cup DOMAIN modelData :
                ~HasLimit(findLimitObjectForModel(m, toLowerCase(m),
                                                  getModelLimits(p)))

\* C25: every retry loop is bounded.  A send of the sweep's ping loop, of
\* its getModelData loop and of its reset loop for one model, and a ping of
\* the popup, is made only after fewer than 3 sends of that loop; and the
\* third send without an answer ends the loop: the sweep returns (or goes on
\* to its next model), the popup reports the error.
C25_BoundedRetries ==
  [][/\ \A s \in SweepIds :
          /\ SweepPing(s) =>
               /\ sweeps[s].attempts < 3
               /\ (~bgUp /\ sweeps[s].attempts = 2) => sweeps'[s] = IdleSweep
          /\ SweepGetData(s) =>
               /\ sweeps[s].attempts < 3
               /\ (~bgUp /\ sweeps[s].attempts = 2) => sweeps'[s] = IdleSweep
          /\ \A m \in RetryModels :
               (SweepSendReset(s, m) /\ sweeps[s].cur = m) =>
                 /\ sweeps[s].attempts < 3
                 /\ (~bgUp /\ sweeps[s].attempts = 2) => sweeps'[s].cur # m
     /\ \A answered \in BOOLEAN :
          PopupPing(answered) =>
            /\ popup.attempts <= 3
            /\ popup'.attempts <= 3
            /\ popup.attempts = 3 => (popup'.pc = "idle" /\ popup'.status = "error")]_vars

\* The popup gave up after its third ping, and a sweep has sent the reset
\* of one model twice without an answer.
C25_Witness ==
  /\ popup.pc = "idle"
  /\ popup.status = "error"
  /\ popup.attempts = 3
  /\ \E s \in SweepIds :
       /\ sweeps[s].pc = "reset"
       /\ sweeps[s].cur # NoName
       /\ sweeps[s].attempts = 2
       /\ ~bgUp

\* C26: once a send has failed and the background answers again, every
\* call of safeSendMessage, with or without suppressErrors, and every
\* performHealthCheck is sent and returns the background's response.
C26_SendRetryable ==
  [][(/\ bgUp
      /\ ~page.extensionContextValid
      /\ \/ \E suppressErrors \in BOOLEAN : SafeSend(suppressErrors)
         \/ PerformHealthCheck)
     => page'.lastCall = "answered"]_vars

\* The instants at which a message is processed again.
Redelivery == now..MaxTime

\* C27: when a rateLimitHit, an updateModelConfig or a
\* resetSingleModelCounter that carries resetTimestamp and nextResetTime is
\* processed on the stored map, processing the same message again, at once
\* or later, with the same stored plan and nothing in between, yields the
\* map the first processing stored.
C27_RedeliveryIdempotent ==
  [][\A h \in HandlerIds :
       (handlers[h].data = modelData) =>
         /\ (FinishRateLimitHit(h) /\ handlers[h].plan = getUserPlanFromStorage)
              => \A t \in Redelivery :
                   rateLimitData(modelData', handlers[h].model, handlers[h].since,
                                 handlers[h].resetCounter, handlers[h].plan, t)
                     = modelData'
         /\ (FinishModelConfig(h) /\ Has(modelData, handlers[h].model))
              => configData(modelData', handlers[h].model, handlers[h].count,
                            handlers[h].until, handlers[h].plan) = modelData'
         /\ (FinishSingleReset(h) /\ Truthy(handlers[h].since))
              => \A t \in Redelivery :
                   singleResetData(modelData', handlers[h].model,
                                   OrElse(handlers[h].since, t), handlers[h].until)
                     = modelData']_vars

\* The panel's reset of gpt-4o, with its resetTimestamp and the
\* nextResetTime 3 hours later, was processed on the record of a counted
\* request, and no handler is at work.
C27_Witness ==
  /\ last = [op |-> "resetSingleModelCounter", model |-> N_gpt4o]
  /\ modelData[N_gpt4o].count = 0
  /\ modelData[N_gpt4o].lastResetTimestamp <= now
  /\ modelData[N_gpt4o].nextResetTime = modelData[N_gpt4o].lastResetTimestamp + 3
  /\ acks[N_gpt4o] = 1
  /\ \A h \in HandlerIds : handlers[h].pc = "idle"

\* Records with an "Until" ahead of t whose "Start" lies less than one
\* period, one period and several periods back.
RollRecords(t) ==
  {Rec(1, start, until, until) :
     start \in {t - 30, t - 7, t - 4, t - 1}, until \in {t + 1, t + 2}}

untilOutranks(data, m, p, t) ==
  LET limitObject == findLimitObjectForModel(m, toLowerCase(m), getModelLimits(p))
      resetTime == OrElse(data[m].nextResetTime, data[m].limitResetTime)
  IN /\ m \in examinedBy(data, p, t)
     /\ Bounded(limitObject)
     /\ steppedStart(data[m], limitObject, t) >= resetTime
     /\ resetTime > OrElse(data[m].lastResetTimestamp, t - 24)

\* C29: when the stepping of updateFutureModelTimestamps ends at or after the
\* stored "Until" and that "Until" is after "Start", nextPeriodStart is put
\* back to "Start" and the record is left unchanged, in the map the run
\* holds and in the store.
C29_UntilOutranksRollover ==
  [][RollForwardFinishes =>
       /\ \A m \in DOMAIN roll.data :
            untilOutranks(roll.data, m, getUserPlanFromStorage, now) =>
              /\ nextPeriodStartOf(roll.data[m],
                   findLimitObjectForModel(m, toLowerCase(m), getModelLimits(getUserPlanFromStorage)),
                   now) = OrElse(roll.data[m].lastResetTimestamp, now - 24)
              /\ rolledData(roll.data, getUserPlanFromStorage, now)[m] = roll.data[m]
              /\ modelData' = modelData
       /\ \A m \in Models : \A p \in Plans : \A r \in RollRecords(now) :
            untilOutranks(Put(EmptyData, m, r), m, p, now) =>
              /\ nextPeriodStartOf(r,
                   findLimitObjectForModel(m, toLowerCase(m), getModelLimits(p)),
                   now) = r.lastResetTimestamp
              /\ rolledData(Put(EmptyData, m, r), p, now)[m] = r]_vars

\* A run has finished on a record of gpt-4o whose stepping ended at or after
\* its "Until".
C29_Witness ==
  /\ roll.pc = "idle"
  /\ N_gpt4o \in roll.examined
  /\ Has(modelData, N_gpt4o)
  /\ \E p \in Plans : untilOutranks(modelData, N_gpt4o, p, now)

\* Records whose "Until" is absent, null, now or an hour back, with a
\* "Start" an hour, four hours and thirty hours back.
PastRecords(t) ==
  {Rec(1, start, until, until) :
     start \in {t - 30, t - 4, t - 1}, until \in {Undef, Null, t, t - 1}}

\* Whether the record has no "Until" after t.
endedOrOpen(modelInfo, t) ==
  LET resetTime == OrElse(modelInfo.nextResetTime, modelInfo.limitResetTime)
  IN ~(Truthy(resetTime) /\ resetTime > t)

\* C31: updateFutureModelTimestamps makes no change to a record whose "Until"
\* is absent or not after now: the run skips it, the map it holds keeps the
\* record and the store is not written; the same for every record of
\* PastRecords under either plan.
C31_RollForwardSkipsEnded ==
  [][RollForwardFinishes =>
       /\ \A m \in DOMAIN roll.data :
            endedOrOpen(roll.data[m], now) =>
              /\ ~rollsForward(roll.data, m, getUserPlanFromStorage, now)
              /\ rolledData(roll.data, getUserPlanFromStorage, now)[m] = roll.data[m]
              /\ m \in roll'.skipped
              /\ modelData' = modelData
       /\ \A m \in Models : \A p \in Plans : \A r \in PastRecords(now) :
            /\ endedOrOpen(r, now)
            /\ ~rollsForward(Put(EmptyData, m, r), m, p, now)
            /\ rolledData(Put(EmptyData, m, r), p, now)[m] = r]_vars

\* A run has finished over a store that holds the overridden record of
\* gpt-4o with its "Until" an hour back; the record is as the override
\* wrote it.
C31_Witness ==
  /\ roll.pc = "idle"
  /\ last = [op |-> "updateModelConfig", model |-> N_gpt4o]
  /\ Has(modelData, N_gpt4o)
  /\ modelData[N_gpt4o].nextResetTime = now - 1
  /\ N_gpt4o \in roll.skipped

\* C32: when the background answers an incrementModelCount with status
\* success and the count it computed, over a store nothing else wrote since
\* the handler read it, the stored record of the model holds that count.
C32_SuccessMeansStored ==
  [][\A h \in HandlerIds :
       (/\ handlers[h].data = modelData
        /\ FinishIncrement(h) \/ FinishIncrementWriteFails(h)
        /\ acks'[handlers[h].model] = acks[handlers[h].model] + 1)
       => /\ Has(modelData', handlers[h].model)
          /\ modelData'[handlers[h].model].count
               = StoredCount(handlers[h].data, handlers[h].model) + 1]_vars

\* Limit objects with each unit the switches name, and one with a unit they
\* do not name.
UnitObjects ==
  {Lim(80, 3, "hour"), Lim(50, 1, "day"), Lim(50, 1, "week"), Lim(10, 1, "month"),
   Lim(10, 1, "year")}

\* Period arithmetic started in one run.
MaxCalcs == 2

\* The three places that compute a window from a limit object, on records
\* with an "Until" ahead, passed or absent.
NextUnits ==
  \/ \E r \in RollRecords(now) \cup PastRecords(now) : \E l \in UnitObjects :
       sent < MaxCalcs /\ UpdateLoopEnters(r, l)
  \/ UpdateLoopSteps
  \/ UpdateLoopExits
  \/ \E r \in RollRecords(now) \cup PastRecords(now) : \E l \in UnitObjects :
       sent < MaxCalcs /\ ExpiryResetComputes(r, l)
  \/ \E r \in RollRecords(now) \cup PastRecords(now) : \E l \in UnitObjects :
       \E u \in UntilChoices(now) :
         sent < MaxCalcs /\ OverrideComputes(r, l, MaxCount, u)

SpecUnits == Init /\ [][NextUnits]_vars

\* The while loop is a loop of the one thread of its page: a pass that can be
\* made is made.
SpecUnitsLive ==
  SpecUnits /\ WF_vars(UpdateLoopSteps) /\ WF_vars(UpdateLoopExits)

\* A periodUnit none of the switches names.
Unrecognized(limitObject) ==
  /\ HasLimit(limitObject)
  /\ limitObject.periodUnit \notin {"hour", "day", "week", "month", "unlimited", "none"}

untilBy(start, limitObject) ==
  IF Bounded(limitObject)
    THEN calculateNextTimestampAfterPeriod(start, limitObject)
    ELSE Null

\* C35: the window a reset of the expiry sweep writes for a model has the
\* length getModelLimits gives that model under the plan the sweep read.
C35_SamePeriodOnBothSides ==
  [][\A h \in HandlerIds :
       (FinishSingleReset(h) /\ handlers[h].sweep # 0) =>
         LET m == handlers[h].model
             plan == sweeps[handlers[h].sweep].plan
         IN modelData'[m].nextResetTime =
              untilBy(modelData'[m].lastResetTimestamp,
                      findLimitObjectForModel(m, toLowerCase(m), getModelLimits(plan)))]_vars

C37_OneWindowEnd ==
  \A m \in DOMAIN modelData :
    modelData[m].nextResetTime = modelData[m].limitResetTime

\* A reset wrote the record of gpt-4o with an "Until" ahead in both fields.
C37_Witness ==
  /\ last = [op |-> "resetSingleModelCounter", model |-> N_gpt4o]
  /\ Has(modelData, N_gpt4o)
  /\ IsNumber(modelData[N_gpt4o].nextResetTime)
  /\ modelData[N_gpt4o].nextResetTime > now
  /\ modelData[N_gpt4o].limitResetTime = modelData[N_gpt4o].nextResetTime

\* C38: two calls of incrementCounterInBackground made by completion checks
\* of one page are more than 5 seconds apart.
C38_OneIncrementPerFiveSeconds ==
  \A i, j \in 1..Len(observer.sentAt) :
    i < j => observer.sentAt[j] - observer.sentAt[i] > ThrottleSeconds

\* Three requests were seen; the check of one sent an increment, the check
\* of another ran within 5 seconds of it and sent nothing, and the check of
\* the third sent the next one.
C38_Witness ==
  /\ Len(observer.sentAt) = 2
  /\ \A c \in CallIds : observer.checks[c].pc = "done"
  /\ \A c \in CallIds : observer.checks[c].waitCount = 1
  /\ observer.currentModel # NoName

\* C39: an updateModelConfig whose handler finds no record of the model in
\* the map it read is answered with status error, and the stored map is left
\* as it is: no record is created.
C39_OverrideNeverCreates ==
  [][\A h \in HandlerIds :
       (FinishModelConfig(h) /\ ~Has(handlers[h].data, handlers[h].model)) =>
         /\ last' = [op |-> "error", model |-> handlers[h].model]
         /\ modelData' = modelData
         /\ (handlers[h].data = modelData => ~Has(modelData', handlers[h].model))]_vars

\* An override of gpt-4o, counted once and no longer in the store, was
\* answered with status error; the store still has no record of it.
C39_Witness ==
  /\ last = [op |-> "error", model |-> N_gpt4o]
  /\ acks[N_gpt4o] = 1
  /\ ~Has(modelData, N_gpt4o)
  /\ \A h \in HandlerIds : handlers[h].pc = "idle"

\* C40: getUserPlan answers FREE or PLUS: FREE while no plan is stored and
\* when the read throws, else the stored plan; the stored plan changes only
\* in a setUserPlan with FREE or PLUS whose write succeeds, to the plan of
\* that message; a setUserPlan with another value is answered with status
\* error and leaves it.
C40_PlanFreeOrPlus ==
  [][/\ getUserPlanFromStorage \in {"FREE", "PLUS"}
     /\ \A readFails \in BOOLEAN :
          GetUserPlan(readFails) =>
            /\ page'.currentPlan \in {"FREE", "PLUS"}
            /\ page'.currentPlan =
                 IF readFails \/ userPlan = "unset" THEN "FREE" ELSE userPlan
     /\ \A p \in PlanInputs :
          SetUserPlan(p) =>
            IF p \in {"FREE", "PLUS"}
              THEN userPlan' = p
              ELSE userPlan' = userPlan /\ last'.op = "error"
     /\ \A p \in Plans : SetUserPlanWriteFails(p) => userPlan' = userPlan
     /\ userPlan' # userPlan =>
          \E p \in {"FREE", "PLUS"} : SetUserPlan(p) /\ userPlan' = p]_vars

\* PLUS was set, a setUserPlan with another value or a failing write was
\* answered with status error, and the panel, asking after that, was
\* answered PLUS.
C40_Witness ==
  /\ userPlan = "PLUS"
  /\ last.op = "error"
  /\ page.currentPlan = "PLUS"
  /\ sent = 3

====
